---- MODULE Spec2Model ----
(***************************************************************************)
(* Platform detection engine of Guizhang: URL normalizer, cache manager,   *)
(* rule manager, metadata extractor, classifier, strategy decider and the  *)
(* PlatformDetectorService that composes them.                             *)
(*                                                                         *)
(* Strings are sequences of tokens.  A token is a piece of text that the   *)
(* code never splits: a scheme with its "//", a host, one path segment     *)
(* with its leading "/", the "?" that opens the query, one query           *)
(* parameter, a fragment, or one white-space character.                    *)
(* Confidences are in hundredths (0.9 is 90).  Time is in abstract ticks.  *)
(***************************************************************************)
EXTENDS Integers, Sequences, FiniteSets, TLC

VARIABLES
    nIn, nOut, nPc,                     \* normalizer under test
    rules, rmDynamic, lastMatch,        \* RuleManager
    xReq, xRes,                         \* MetadataExtractor under test
    cache, stats, now, cacheCfg,        \* CacheManager
    lastGet,                            \* the last get: its key and what it returned
    heap,                               \* metadata and rawData objects, by reference
    calls, detCfg,                      \* detect calls in flight or finished; service config
    batch,                              \* detectBatch in progress
    prefs,                              \* the service's userPreferences.defaultStrategies
    deciderConfig, decisionHistory,     \* StrategyDecider under test
    decided, lastDecision               \* decisions made so far; the last one

normVars  == <<nIn, nOut, nPc>>
ruleVars  == <<rules, rmDynamic, lastMatch>>
extVars   == <<xReq, xRes>>
cacheVars == <<cache, stats, now, cacheCfg, lastGet>>
detVars   == <<heap, calls, detCfg, batch>>
decVars   == <<prefs, deciderConfig, decisionHistory, decided, lastDecision>>
vars      == <<normVars, ruleVars, extVars, cacheVars, detVars, decVars>>

(***************************************************************************)
(* Text                                                                    *)
(***************************************************************************)

\* U+0020: removed from both ends by the URL parser and by String.trim.
\* U+00A0: removed from both ends by String.trim only.
C0Space == {"sp"}
JsWhiteSpace == {"sp", "nbsp"}

SchemeTok == {"https://", "http://", "HTTPS://"}

HostTok ==
    {"www.youtube.com", "youtube.com", "youtu.be", "WWW.YOUTUBE.COM",
     "www.bilibili.com", "bilibili.com", "b23.tv",
     "twitter.com", "x.com", "medium.com", "MEDIUM.COM", "blog.medium.com",
     "www.zhihu.com", "zhuanlan.zhihu.com", "github.com",
     "weibo.com", "m.weibo.cn", "www.tiktok.com", "vt.tiktok.com",
     "www.reddit.com", "old.reddit.com", "stackoverflow.com", "dev.to",
     "news.ycombinator.com", "unknown-blog.example.com"}

FragTok == {"#frag"}

\* utm_source, utm_medium, utm_campaign, utm_term, utm_content, fbclid, gclid
TrackingTok ==
    {"utm_source=a", "utm_medium=a", "utm_campaign=a", "utm_term=a",
     "utm_content=a", "fbclid=a", "gclid=a"}

\* String.prototype.toLowerCase, token by token.
ToLowerCase(t) ==
    CASE t = "HTTPS://" -> "https://"
      [] t = "WWW.YOUTUBE.COM" -> "www.youtube.com"
      [] t = "MEDIUM.COM" -> "medium.com"
      [] t = "/WATCH" -> "/watch"
      [] t = "JUNK" -> "junk"
      [] OTHER -> t

RECURSIVE DropLeading(_, _)
DropLeading(s, white) ==
    IF s # <<>> /\ Head(s) \in white THEN DropLeading(Tail(s), white) ELSE s

RECURSIVE DropTrailing(_, _)
DropTrailing(s, white) ==
    IF s # <<>> /\ s[Len(s)] \in white
    THEN DropTrailing(SubSeq(s, 1, Len(s) - 1), white)
    ELSE s

\* String.prototype.trim
Trim(s) == DropTrailing(DropLeading(s, JsWhiteSpace), JsWhiteSpace)

\* Index of the first token of s that is in set, Len(s)+1 when there is none.
RECURSIVE FirstIn(_, _, _)
FirstIn(s, set, i) ==
    IF i > Len(s) THEN Len(s) + 1
    ELSE IF s[i] \in set THEN i
    ELSE FirstIn(s, set, i + 1)

(***************************************************************************)
(* new URL(x), URLSearchParams and URL serialisation                       *)
(***************************************************************************)

\* Percent-encoding of a white-space character left inside a path.
PathEncode(t) ==
    CASE t = "sp" -> "%20"
      [] t = "nbsp" -> "%C2%A0"
      [] OTHER -> t

\* A white-space character left inside a query, after URLSearchParams has
\* parsed and serialised it again.
QueryEncode(t) ==
    CASE t = "sp" -> "+"
      [] t = "nbsp" -> "%C2%A0"
      [] t = "%20" -> "+"
      [] OTHER -> t

QuerySuffixTok == {"+", "%C2%A0"}

\* URLSearchParams.toString() of one parameter: a name without "=" gets one.
ParamToString(t) ==
    CASE t = "flag" -> "flag="
      [] t = "+" -> "+="
      [] t = "%C2%A0" -> "%C2%A0="
      [] OTHER -> t

\* The query as URLSearchParams holds it: a sequence of parameters, each a
\* sequence of tokens (the parameter, then the encoded white space that
\* became part of its value).
RECURSIVE GroupParams(_, _)
GroupParams(q, acc) ==
    IF q = <<>> THEN acc
    ELSE LET t == QueryEncode(Head(q)) IN
         IF t \in QuerySuffixTok /\ acc # <<>>
         THEN GroupParams(Tail(q),
                [acc EXCEPT ![Len(acc)] = Append(acc[Len(acc)], t)])
         ELSE GroupParams(Tail(q), Append(acc, <<ParamToString(t)>>))

RECURSIVE Flatten(_)
Flatten(groups) ==
    IF groups = <<>> THEN <<>> ELSE Head(groups) \o Flatten(Tail(groups))

\* new URL(x): [ok |-> FALSE] when the constructor throws, else the parts.
\* The parser drops leading and trailing C0-control-or-space, lower-cases
\* scheme and host, and gives an empty path the value "/".
ParseUrl(x) ==
    LET s == DropTrailing(DropLeading(x, C0Space), C0Space) IN
    IF Len(s) < 2 \/ s[1] \notin SchemeTok \/ s[2] \notin HostTok
    THEN [ok |-> FALSE]
    ELSE LET rest == SubSeq(s, 3, Len(s))
             h == FirstIn(rest, FragTok, 1)
             beforeHash == SubSeq(rest, 1, h - 1)
             q == FirstIn(beforeHash, {"?"}, 1)
             raw == SubSeq(beforeHash, 1, q - 1)
             path == [i \in 1..Len(raw) |-> PathEncode(raw[i])]
         IN [ok |-> TRUE,
             protocol |-> ToLowerCase(s[1]),
             hostname |-> ToLowerCase(s[2]),
             pathname |-> IF path = <<>> THEN <<"/">> ELSE path,
             search |-> SubSeq(beforeHash, q + 1, Len(beforeHash)),
             hash |-> SubSeq(rest, h, Len(rest))]

\* URL.toString(): the "?" is written only for a non-empty query.
UrlToString(u) ==
    <<u.protocol, u.hostname>> \o u.pathname
      \o (IF u.search = <<>> THEN <<>> ELSE <<"?">> \o u.search)
      \o u.hash

NotTracking(group) == group[1] \notin TrackingTok

\* A normalizer that leaves the fragment and the tracking parameters in place.
NormalizeUrlKeepFragment(url) ==
    LET u == ParseUrl(url) IN
    IF ~u.ok THEN Trim(url) ELSE UrlToString(u)

\* PlatformDetectorService.normalizeUrl
NormalizeUrl(url) ==
    LET u == ParseUrl(url) IN
    IF ~u.ok THEN Trim(url)
    ELSE UrlToString([u EXCEPT
            !.hash = <<>>,
            !.search = Flatten(SelectSeq(GroupParams(u.search, <<>>), NotTracking))])

(***************************************************************************)
(* Rule manager                                                            *)
(***************************************************************************)

PathTok ==
    {"/", "/watch", "/WATCH", "/shorts", "/playlist", "/video", "/bangumi",
     "/play", "/read", "/status", "/question", "/p", "/answer", "/zvideo",
     "/issues", "/pull", "/blob", "/tree", "/r", "/comments", "/questions",
     "/a", "/item", "/blog", "/article", "/post", "/news", "/user", "/123",
     "/dQw4w9WgXcQ", "/my-entry", "/some-article-title", "/@user"}

\* Segments that are [\w-]+ throughout.
SegWordDash == PathTok \ {"/", "/@user"}
\* Segments that are \w+ throughout.
SegWord == SegWordDash \ {"/my-entry", "/some-article-title"}
\* Segments that are \d+ (or begin with a digit, for a trailing \d+).
SegDigits == {"/123"}
\* Segments that begin with eleven characters of [\w-].
SegEleven == {"/dQw4w9WgXcQ", "/some-article-title"}
\* Segments with at least one character after the "/".
SegNonEmpty == PathTok \ {"/"}

Https == {"https://"}
YouTubeHosts == {"www.youtube.com", "youtube.com"}
TwitterHosts == {"twitter.com", "x.com"}

\* A pattern of a rule is a string; what new RegExp(text, 'i') accepts is
\* the set of tokens allowed at each position from the start of the string
\* ("^..." without "$": a prefix match).
Pat(text, toks) == [text |-> text, toks |-> toks]

\* The built-in rules of RuleManager.getBuiltinRules, each pattern with
\* what it accepts.
BuiltinRuleTable == <<
    [platform |-> "youtube", contentType |-> "video", priority |-> 100, enabled |-> TRUE,
     patterns |-> <<
        Pat("youtube.com/watch?v=", <<Https, YouTubeHosts, {"/watch"}, {"?"}, {"v=dQw4w9WgXcQ"}>>),
        Pat("youtu.be/", <<Https, {"youtu.be"}, SegEleven>>),
        Pat("youtube.com/shorts/", <<Https, YouTubeHosts, {"/shorts"}, SegWordDash>>),
        Pat("youtube.com/playlist?list=", <<Https, YouTubeHosts, {"/playlist"}, {"?"}, {"list=PL1"}>>) >>],
    [platform |-> "bilibili", contentType |-> "video", priority |-> 95, enabled |-> TRUE,
     patterns |-> <<
        Pat("www.bilibili.com/video/", <<Https, {"www.bilibili.com"}, {"/video"}, SegWordDash>>),
        Pat("www.bilibili.com/bangumi/play/", <<Https, {"www.bilibili.com"}, {"/bangumi"}, {"/play"}, SegWordDash>>),
        Pat("b23.tv/", <<Https, {"b23.tv"}, SegWordDash>>),
        Pat("bilibili.com/read/", <<Https, {"www.bilibili.com", "bilibili.com"}, {"/read"}, SegWordDash>>) >>],
    [platform |-> "twitter", contentType |-> "tweet", priority |-> 90, enabled |-> TRUE,
     patterns |-> <<
        Pat("twitter.com/user/status/", <<Https, TwitterHosts, SegWord, {"/status"}, SegDigits>>),
        Pat("twitter.com/user", <<Https, TwitterHosts, SegWordDash>>) >>],
    [platform |-> "medium", contentType |-> "article", priority |-> 85, enabled |-> TRUE,
     patterns |-> <<
        Pat("medium.com/@user/", <<Https, {"medium.com"}, {"/@user"}, SegWordDash>>),
        Pat("sub.medium.com/", <<Https, {"blog.medium.com"}, SegWordDash>>) >>],
    [platform |-> "zhihu", contentType |-> "article", priority |-> 80, enabled |-> TRUE,
     patterns |-> <<
        Pat("www.zhihu.com/question/", <<Https, {"www.zhihu.com"}, {"/question"}, SegDigits>>),
        Pat("zhuanlan.zhihu.com/p/", <<Https, {"zhuanlan.zhihu.com"}, {"/p"}, SegDigits>>),
        Pat("www.zhihu.com/answer/", <<Https, {"www.zhihu.com"}, {"/answer"}, SegDigits>>),
        Pat("www.zhihu.com/zvideo/", <<Https, {"www.zhihu.com"}, {"/zvideo"}, SegDigits>>) >>],
    [platform |-> "github", contentType |-> "code_repository", priority |-> 75, enabled |-> TRUE,
     patterns |-> <<
        Pat("github.com/owner/repo", <<Https, {"github.com"}, SegWordDash, SegWordDash>>),
        Pat("github.com/owner/repo/issues/", <<Https, {"github.com"}, SegWordDash, SegWordDash, {"/issues"}, SegDigits>>),
        Pat("github.com/owner/repo/pull/", <<Https, {"github.com"}, SegWordDash, SegWordDash, {"/pull"}, SegDigits>>),
        Pat("github.com/owner/repo/blob/", <<Https, {"github.com"}, SegWordDash, SegWordDash, {"/blob"}, PathTok>>),
        Pat("github.com/owner/repo/tree/", <<Https, {"github.com"}, SegWordDash, SegWordDash, {"/tree"}, PathTok>>) >>],
    [platform |-> "weibo", contentType |-> "tweet", priority |-> 70, enabled |-> TRUE,
     patterns |-> <<
        Pat("weibo.com/uid/", <<Https, {"weibo.com"}, SegDigits, SegWordDash>>),
        Pat("m.weibo.cn/status/", <<Https, {"m.weibo.cn"}, {"/status"}, SegDigits>>) >>],
    [platform |-> "tiktok", contentType |-> "video", priority |-> 65, enabled |-> TRUE,
     patterns |-> <<
        Pat("www.tiktok.com/@user/video/", <<Https, {"www.tiktok.com"}, {"/@user"}, {"/video"}, SegDigits>>),
        Pat("vt.tiktok.com/", <<Https, {"vt.tiktok.com"}, SegWordDash>>) >>],
    [platform |-> "reddit", contentType |-> "discussion", priority |-> 60, enabled |-> TRUE,
     patterns |-> <<
        Pat("www.reddit.com/r/sub/comments/", <<Https, {"www.reddit.com"}, {"/r"}, SegWord, {"/comments"}, SegWordDash>>),
        Pat("old.reddit.com/r/sub/comments/", <<Https, {"old.reddit.com"}, {"/r"}, SegWord, {"/comments"}, SegWordDash>>) >>],
    [platform |-> "stackoverflow", contentType |-> "discussion", priority |-> 55, enabled |-> TRUE,
     patterns |-> <<
        Pat("stackoverflow.com/questions/id/", <<Https, {"stackoverflow.com"}, {"/questions"}, SegDigits, PathTok>>),
        Pat("stackoverflow.com/a/", <<Https, {"stackoverflow.com"}, {"/a"}, SegDigits>>) >>],
    [platform |-> "devto", contentType |-> "article", priority |-> 50, enabled |-> TRUE,
     patterns |-> <<
        Pat("dev.to/user/", <<Https, {"dev.to"}, SegWordDash, SegWordDash>>) >>],
    [platform |-> "hackernews", contentType |-> "discussion", priority |-> 45, enabled |-> TRUE,
     patterns |-> <<
        Pat("news.ycombinator.com/item?id=", <<Https, {"news.ycombinator.com"}, {"/item"}, {"?"}, {"id=123"}>>) >>],
    [platform |-> "generic", contentType |-> "article", priority |-> 10, enabled |-> TRUE,
     patterns |-> <<
        Pat("host/blog/", <<{"https://", "http://"}, HostTok, {"/blog"}, SegNonEmpty>>),
        Pat("host/article/", <<{"https://", "http://"}, HostTok, {"/article"}, SegNonEmpty>>),
        Pat("host/post/", <<{"https://", "http://"}, HostTok, {"/post"}, SegNonEmpty>>),
        Pat("host/news/", <<{"https://", "http://"}, HostTok, {"/news"}, SegNonEmpty>>) >>]
    >>

\* A pattern that accepts every https URL on a YouTube host.
AnyYouTube == Pat("youtube.com", <<Https, YouTubeHosts>>)

\* Every pattern a rule may carry.
Patterns ==
    {AnyYouTube} \cup
    UNION {{BuiltinRuleTable[i].patterns[j] : j \in 1..Len(BuiltinRuleTable[i].patterns)} :
             i \in 1..Len(BuiltinRuleTable)}

\* new RegExp(pattern, 'i')
Compile(pattern) == CHOOSE p \in Patterns : p.text = pattern

\* A pattern text that new RegExp rejects with a SyntaxError.
InvalidPattern == "("

\* new RegExp(pattern, 'i') returns a regular expression
IsRegExp(pattern) == \E p \in Patterns : p.text = pattern

\* new RegExp(pattern, 'i').exec(url) is a match; the SyntaxError of an
\* invalid pattern is caught by detectPlatform, which goes on.
PatternMatches(pattern, url) ==
    LET regex == Compile(pattern) IN
    /\ IsRegExp(pattern)
    /\ Len(url) >= Len(regex.toks)
    /\ \A i \in 1..Len(regex.toks) : ToLowerCase(url[i]) \in regex.toks[i]

\* RuleManager.getBuiltinRules
BuiltinRules ==
    [i \in 1..Len(BuiltinRuleTable) |->
        [BuiltinRuleTable[i] EXCEPT
            !.patterns = [j \in 1..Len(@) |-> @[j].text]]]

Undefined == "undefined"

\* An optional value is <<>> (absent) or <<v>>.
None == <<>>
Some(v) == <<v>>

\* Array.prototype.sort((a, b) => b.priority - a.priority): stable, so rules
\* of equal priority keep their order.
RECURSIVE InsertByPriority(_, _)
InsertByPriority(sorted, r) ==
    IF sorted = <<>> THEN <<r>>
    ELSE IF Head(sorted).priority >= r.priority
         THEN <<Head(sorted)>> \o InsertByPriority(Tail(sorted), r)
         ELSE <<r>> \o sorted

RECURSIVE SortByPriority(_)
SortByPriority(rs) ==
    IF rs = <<>> THEN <<>>
    ELSE InsertByPriority(SortByPriority(SubSeq(rs, 1, Len(rs) - 1)), rs[Len(rs)])

\* The identifier patterns of extractYouTubeId, extractBilibiliId,
\* extractTwitterId and extractGitHubId: unanchored and case-sensitive;
\* `from`..`to` are the positions of the captured tokens.
IdPat(toks, from, to) == [toks |-> toks, from |-> from, to |-> to]

IdPatterns(platform) ==
    CASE platform = "youtube" -> <<
            IdPat(<<YouTubeHosts, {"/watch"}, {"?"}, {"v=dQw4w9WgXcQ"}>>, 4, 4),
            IdPat(<<{"youtu.be"}, SegEleven>>, 2, 2),
            IdPat(<<YouTubeHosts, {"/shorts"}, SegWordDash>>, 3, 3),
            IdPat(<<YouTubeHosts, {"/playlist"}, {"?"}, {"list=PL1"}>>, 4, 4) >>
      [] platform = "bilibili" -> <<
            IdPat(<<{"www.bilibili.com", "bilibili.com"}, {"/video"}, SegWordDash>>, 3, 3),
            IdPat(<<{"www.bilibili.com", "bilibili.com"}, {"/bangumi"}, {"/play"}, SegWordDash>>, 4, 4),
            IdPat(<<{"b23.tv"}, SegWordDash>>, 2, 2),
            IdPat(<<{"www.bilibili.com", "bilibili.com"}, {"/read"}, SegWordDash>>, 3, 3) >>
      [] platform = "twitter" -> <<
            IdPat(<<TwitterHosts, SegWord, {"/status"}, SegDigits>>, 4, 4),
            IdPat(<<TwitterHosts, SegWordDash>>, 2, 2) >>
      [] platform = "github" -> <<
            IdPat(<<{"github.com"}, SegWordDash, SegWordDash>>, 2, 3) >>
      [] OTHER -> <<>>

IdPatternAt(p, url, k) ==
    /\ k + Len(p.toks) - 1 <= Len(url)
    /\ \A i \in 1..Len(p.toks) : url[k + i - 1] \in p.toks[i]

\* extractYouTubeId / extractBilibiliId / extractTwitterId / extractGitHubId:
\* the captured tokens, <<>> for undefined.
ExtractId(platform, url) ==
    LET ps == IdPatterns(platform)
        hits == {j \in 1..Len(ps) : \E k \in 1..Len(url) : IdPatternAt(ps[j], url, k)}
    IN IF hits = {} THEN <<>>
       ELSE LET j == CHOOSE m \in hits : \A n \in hits : m <= n
                ks == {k \in 1..Len(url) : IdPatternAt(ps[j], url, k)}
                k == CHOOSE a \in ks : \A b \in ks : a <= b
            IN SubSeq(url, k + ps[j].from - 1, k + ps[j].to - 1)

\* A rule matching whether it is enabled or not
RuleMatchesIgnoringEnabled(rule, url) ==
    \E j \in 1..Len(rule.patterns) : PatternMatches(rule.patterns[j], url)

RuleMatches(rule, url) ==
    /\ rule.enabled
    /\ \E j \in 1..Len(rule.patterns) : PatternMatches(rule.patterns[j], url)

\* The loop of detectPlatform over rules that all have a patterns array
FirstMatch(rs, url) ==
    LET normalizedUrl == Trim(url)
        hits == {i \in 1..Len(rs) : RuleMatches(rs[i], normalizedUrl)}
    IN IF hits = {}
       THEN [platform |-> "generic", confidence |-> 10,
             matchedPattern |-> Undefined, extractedId |-> <<>>]
       ELSE LET i == CHOOSE m \in hits : \A n \in hits : m <= n
                rule == rs[i]
                js == {j \in 1..Len(rule.patterns) :
                         PatternMatches(rule.patterns[j], normalizedUrl)}
                j == CHOOSE a \in js : \A b \in js : a <= b
                pattern == rule.patterns[j]
            IN [platform |-> rule.platform, confidence |-> 90,
                matchedPattern |-> IF pattern # "" THEN pattern ELSE Undefined,
                extractedId |-> ExtractId(rule.platform, normalizedUrl)]

\* A rule object has a patterns array
HasPatterns(rule) == "patterns" \in DOMAIN rule

\* The first enabled rule of the list without a patterns array, 0 for none:
\* `for (const pattern of rule.patterns)` raises a TypeError there, outside
\* the try of the loop body.
FirstBroken(rs) ==
    IF \A i \in 1..Len(rs) : ~rs[i].enabled \/ HasPatterns(rs[i]) THEN 0
    ELSE CHOOSE i \in 1..Len(rs) :
            /\ rs[i].enabled /\ ~HasPatterns(rs[i])
            /\ \A j \in 1..(i - 1) : ~rs[j].enabled \/ HasPatterns(rs[j])

\* detectPlatform raising a TypeError
TypeErrorRaised == [raised |-> "TypeError"]

\* RuleManager.detectPlatform over the rule list rs: the first match among
\* the rules before the first that makes the loop raise, if there is one.
DetectPlatformIn(rs, url) ==
    IF FirstBroken(rs) = 0 THEN FirstMatch(rs, url)
    ELSE IF FirstMatch(SubSeq(rs, 1, FirstBroken(rs) - 1), url).confidence = 90
         THEN FirstMatch(SubSeq(rs, 1, FirstBroken(rs) - 1), url)
         ELSE TypeErrorRaised

\* RuleManager.initializeRules
InitializeRules(configRules) ==
    SortByPriority(IF Len(configRules) > 0 THEN configRules ELSE BuiltinRules)

\* RuleManager.addRule
AddRuleTo(rs, rule) == SortByPriority(Append(rs, rule))

\* RuleManager.updateRule: the first rule of the platform gets the updates
\* (a record with some of the fields patterns, contentType, priority, enabled).
UpdateRuleIn(rs, platform, updates) ==
    LET found == {i \in 1..Len(rs) : rs[i].platform = platform} IN
    IF found = {} THEN rs
    ELSE LET index == CHOOSE m \in found : \A n \in found : m <= n IN
         [rs EXCEPT ![index] =
            [f \in DOMAIN rs[index] |->
                IF f \in DOMAIN updates THEN updates[f] ELSE rs[index][f]]]

(***************************************************************************)
(* Metadata extractor                                                      *)
(*                                                                         *)
(* extractViaOGTags, extractViaJSONLD, extractViaMetaTags and              *)
(* extractYouTubeViaAPI stand for reads of the page or of the platform:    *)
(* what each one yields is an input (`o`), "ok" being the value the source *)
(* returns, "throw" a read that fails, "notitle" a page without a title.   *)
(* extractionTime (a duration measured with Date.now()) is left out.       *)
(***************************************************************************)

NoRawData ==
    [source |-> Undefined, error |-> Undefined,
     extractionSource |-> Undefined, extractionConfidence |-> <<>>]

NoMetadata ==
    [platformId |-> <<>>, title |-> <<>>, description |-> Undefined,
     thumbnail |-> Undefined, author |-> Undefined, publishedAt |-> Undefined,
     rawData |-> NoRawData]

\* A title: the text put before it and the tokens it is made of.
Title(prefix, text) == <<[prefix |-> prefix, text |-> text]>>

\* The title for a url that `new URL(url)` parses as u, or fails to parse.
TitleOfLastSegment(url, u) ==
    IF ~u.ok THEN Title("", url)
    ELSE LET last == u.pathname[Len(u.pathname)] IN
         Title("", IF last = "/" THEN <<>> ELSE <<last>>)

\* MetadataExtractor.extractTitleFromUrl: the last path segment (with -/_
\* turned into spaces, decoded, trimmed), or the url when it does not parse.
ExtractTitleFromUrl(url) == TitleOfLastSegment(url, ParseUrl(url))

\* `if (x.title)`: a missing title and the empty string are both falsy.
HasTitle(m) == m.title # <<>> /\ m.title # Title("", <<>>)

MetaIdPatterns(platform) ==
    CASE platform = "youtube" -> <<
            IdPat(<<YouTubeHosts, {"/watch"}, {"?"}, {"v=dQw4w9WgXcQ"}>>, 4, 4),
            IdPat(<<{"youtu.be"}, SegEleven>>, 2, 2),
            IdPat(<<YouTubeHosts, {"/shorts"}, SegWordDash>>, 3, 3) >>
      [] platform = "bilibili" -> <<
            IdPat(<<{"www.bilibili.com", "bilibili.com"}, {"/video"}, SegWordDash>>, 3, 3),
            IdPat(<<{"www.bilibili.com", "bilibili.com"}, {"/bangumi"}, {"/play"}, SegWordDash>>, 4, 4),
            IdPat(<<{"b23.tv"}, SegWordDash>>, 2, 2) >>
      [] platform = "twitter" -> <<
            IdPat(<<TwitterHosts, SegWord, {"/status"}, SegDigits>>, 4, 4) >>
      [] platform = "github" -> <<
            IdPat(<<{"github.com"}, SegWordDash, SegWordDash>>, 2, 3) >>
      [] platform = "weibo" -> <<
            IdPat(<<{"weibo.com"}, SegDigits, SegWordDash>>, 3, 3) >>
      [] OTHER -> <<>>

\* extractYouTubeIdFromUrl, extractBilibiliIdFromUrl, extractTwitterIdFromUrl,
\* extractGitHubIdFromUrl, extractWeiboIdFromUrl
ExtractIdFromUrl(platform, url) ==
    LET ps == MetaIdPatterns(platform)
        hits == {j \in 1..Len(ps) : \E k \in 1..Len(url) : IdPatternAt(ps[j], url, k)}
    IN IF hits = {} THEN <<>>
       ELSE LET j == CHOOSE m \in hits : \A n \in hits : m <= n
                ks == {k \in 1..Len(url) : IdPatternAt(ps[j], url, k)}
                k == CHOOSE a \in ks : \A b \in ks : a <= b
            IN SubSeq(url, k + ps[j].from - 1, k + ps[j].to - 1)

\* extractYouTubeTitleFromUrl, extractBilibiliTitleFromUrl, extractGitHubTitleFromUrl
PlatformTitleFromUrl(label, platform, url) ==
    Title(label, ExtractIdFromUrl(platform, url))

\* MetadataExtractor.extractViaOGTags
ExtractViaOGTags(url, outcome) ==
    [NoMetadata EXCEPT
        !.title = IF outcome = "notitle" THEN <<>>
                  ELSE Title("OG", ExtractTitleFromUrl(url)[1].text),
        !.description = "og-description",
        !.thumbnail = "https://example.com/thumbnail.jpg",
        !.rawData = [NoRawData EXCEPT !.source = "og-tags"]]

\* MetadataExtractor.extractViaJSONLD
ExtractViaJSONLD(url, outcome) ==
    [NoMetadata EXCEPT
        !.title = IF outcome = "notitle" THEN <<>>
                  ELSE Title("JSON-LD", ExtractTitleFromUrl(url)[1].text),
        !.description = "jsonld-description",
        !.author = "author",
        !.publishedAt = "iso-date",
        !.rawData = [NoRawData EXCEPT !.source = "json-ld"]]

\* MetadataExtractor.extractViaMetaTags
ExtractViaMetaTags(url) ==
    [NoMetadata EXCEPT
        !.title = Title("Meta", ExtractTitleFromUrl(url)[1].text),
        !.description = "meta-description",
        !.rawData = [NoRawData EXCEPT !.source = "meta-tags"]]

\* The record a platform API answers with.
ApiRecord(url) ==
    [NoMetadata EXCEPT
        !.title = Title("API", <<>>),
        !.platformId = ExtractIdFromUrl("youtube", url),
        !.rawData = [NoRawData EXCEPT !.source = "youtube-data-api"]]

\* A MetadataExtractionResult
Extraction(metadata, source, confidence) ==
    [metadata |-> metadata, source |-> source, confidence |-> confidence]

PlatformApiConfidence == 95

\* MetadataExtractor.extractYouTubeMetadata, with the platform API step
\* tried whatever the configuration says
ExtractYouTubeMetadataAlwaysApi(cfg, url, o) ==
    IF o.api = "throw" THEN
        Extraction([NoMetadata EXCEPT
                      !.title = PlatformTitleFromUrl("YouTube", "youtube", url),
                      !.platformId = ExtractIdFromUrl("youtube", url)],
                   "fallback", 30)
    ELSE IF o.api = "record" THEN
        Extraction(ApiRecord(url), "platform-api", PlatformApiConfidence)
    ELSE IF o.og = "throw" THEN
        Extraction([NoMetadata EXCEPT
                      !.title = PlatformTitleFromUrl("YouTube", "youtube", url),
                      !.platformId = ExtractIdFromUrl("youtube", url)],
                   "fallback", 30)
    ELSE Extraction(ExtractViaOGTags(url, o.og), "og", 80)

\* MetadataExtractor.extractYouTubeMetadata
ExtractYouTubeMetadata(cfg, url, o) ==
    IF cfg.enablePlatformAPI /\ o.api = "throw" THEN
        Extraction([NoMetadata EXCEPT
                      !.title = PlatformTitleFromUrl("YouTube", "youtube", url),
                      !.platformId = ExtractIdFromUrl("youtube", url)],
                   "fallback", 30)
    ELSE IF cfg.enablePlatformAPI /\ o.api = "record" THEN
        Extraction(ApiRecord(url), "platform-api", PlatformApiConfidence)
    ELSE IF o.og = "throw" THEN
        Extraction([NoMetadata EXCEPT
                      !.title = PlatformTitleFromUrl("YouTube", "youtube", url),
                      !.platformId = ExtractIdFromUrl("youtube", url)],
                   "fallback", 30)
    ELSE Extraction(ExtractViaOGTags(url, o.og), "og", 80)

\* MetadataExtractor.extractBilibiliMetadata
ExtractBilibiliMetadata(url, o) ==
    IF o.og = "throw" THEN
        Extraction([NoMetadata EXCEPT
                      !.title = PlatformTitleFromUrl("Bilibili", "bilibili", url),
                      !.platformId = ExtractIdFromUrl("bilibili", url)],
                   "fallback", 40)
    ELSE Extraction([ExtractViaOGTags(url, o.og) EXCEPT
                       !.platformId = ExtractIdFromUrl("bilibili", url)],
                    "og", 85)

\* MetadataExtractor.extractTwitterMetadata
ExtractTwitterMetadata(url, o) ==
    IF o.og = "throw" THEN
        Extraction([NoMetadata EXCEPT
                      !.platformId = ExtractIdFromUrl("twitter", url)],
                   "fallback", 30)
    ELSE Extraction([ExtractViaOGTags(url, o.og) EXCEPT
                       !.platformId = ExtractIdFromUrl("twitter", url)],
                    "og", 90)

\* MetadataExtractor.extractMediumMetadata
ExtractMediumMetadata(url, o) ==
    IF o.jsonld = "throw" THEN
        Extraction([NoMetadata EXCEPT !.title = ExtractTitleFromUrl(url)], "fallback", 40)
    ELSE IF HasTitle(ExtractViaJSONLD(url, o.jsonld)) THEN
        Extraction(ExtractViaJSONLD(url, o.jsonld), "jsonld", 90)
    ELSE IF o.og = "throw" THEN
        Extraction([NoMetadata EXCEPT !.title = ExtractTitleFromUrl(url)], "fallback", 40)
    ELSE Extraction(ExtractViaOGTags(url, o.og), "og", 80)

\* MetadataExtractor.extractZhihuMetadata
ExtractZhihuMetadata(url, o) ==
    IF o.og = "throw" THEN
        Extraction([NoMetadata EXCEPT !.title = ExtractTitleFromUrl(url)], "fallback", 40)
    ELSE Extraction(ExtractViaOGTags(url, o.og), "og", 85)

\* MetadataExtractor.extractGitHubMetadata
ExtractGitHubMetadata(url, o) ==
    IF o.meta = "throw" THEN
        Extraction([NoMetadata EXCEPT
                      !.title = PlatformTitleFromUrl("GitHub", "github", url),
                      !.platformId = ExtractIdFromUrl("github", url)],
                   "fallback", 50)
    ELSE Extraction(ExtractViaMetaTags(url), "og", 80)

\* MetadataExtractor.extractWeiboMetadata
ExtractWeiboMetadata(url, o) ==
    IF o.og = "throw" THEN
        Extraction([NoMetadata EXCEPT
                      !.platformId = ExtractIdFromUrl("weibo", url)],
                   "fallback", 30)
    ELSE Extraction(ExtractViaOGTags(url, o.og), "og", 80)

\* MetadataExtractor.extractGenericMetadata
ExtractGenericMetadata(cfg, url, o) ==
    IF cfg.enableJSONLD /\ o.jsonld = "throw" THEN
        Extraction([NoMetadata EXCEPT !.title = ExtractTitleFromUrl(url)], "fallback", 10)
    ELSE IF cfg.enableJSONLD /\ HasTitle(ExtractViaJSONLD(url, o.jsonld)) THEN
        Extraction(ExtractViaJSONLD(url, o.jsonld), "jsonld", 70)
    ELSE IF cfg.enableOGTags /\ o.og = "throw" THEN
        Extraction([NoMetadata EXCEPT !.title = ExtractTitleFromUrl(url)], "fallback", 10)
    ELSE IF cfg.enableOGTags /\ HasTitle(ExtractViaOGTags(url, o.og)) THEN
        Extraction(ExtractViaOGTags(url, o.og), "og", 60)
    ELSE Extraction([NoMetadata EXCEPT !.title = ExtractTitleFromUrl(url)], "fallback", 20)

\* The switch of MetadataExtractor.extract
ExtractByPlatform(cfg, url, platform, o) ==
    CASE platform = "youtube" -> ExtractYouTubeMetadata(cfg, url, o)
      [] platform = "bilibili" -> ExtractBilibiliMetadata(url, o)
      [] platform = "twitter" -> ExtractTwitterMetadata(url, o)
      [] platform = "medium" -> ExtractMediumMetadata(url, o)
      [] platform = "zhihu" -> ExtractZhihuMetadata(url, o)
      [] platform = "github" -> ExtractGitHubMetadata(url, o)
      [] platform = "weibo" -> ExtractWeiboMetadata(url, o)
      [] OTHER -> ExtractGenericMetadata(cfg, url, o)

\* The record extract returns: the metadata of the result, its rawData
\* extended with where the result came from.
WithExtractionSource(result) ==
    [result.metadata EXCEPT
        !.rawData = [result.metadata.rawData EXCEPT
                       !.extractionSource = result.source,
                       !.extractionConfidence = <<result.confidence>>]]

\* MetadataExtractor.extract.  Its own catch (the minimal record with the
\* error note) has no path into it: every platform function above catches
\* whatever its steps throw and returns its own fallback.
MetadataExtract(cfg, url, platform, o) ==
    WithExtractionSource(ExtractByPlatform(cfg, url, platform, o))

(***************************************************************************)
(* Cache manager                                                           *)
(*                                                                         *)
(* The Map is a sequence of entries in insertion order.  Besides the       *)
(* fields of CacheItem an entry records how it was made: `ttlArg`, the     *)
(* duration argument of the set that made it (None when it was omitted),   *)
(* `refreshed`, whether refresh has changed its expiry since, `by`, the     *)
(* detect call that stored it (0 for a direct set), and `orig`, the value  *)
(* of the result, nested objects included, when that call stored it.       *)
(***************************************************************************)

EvictBatch == 10

KeyIndex(c, key) ==
    LET found == {i \in 1..Len(c) : c[i].key = key} IN
    IF found = {} THEN 0 ELSE CHOOSE i \in found : TRUE

RemoveAt(c, i) == SubSeq(c, 1, i - 1) \o SubSeq(c, i + 1, Len(c))

RemoveKey(c, key) == SelectSeq(c, LAMBDA e : e.key # key)

\* `{ ...result }`: a new object with the same property values; a property
\* that holds an object (metadata) is shared, not copied.
ShallowCopy(result) == result

\* CacheManager.get that counts a hit but no miss
CacheGetMissesUncounted(c, st, cfg, key, t) ==
    LET i == KeyIndex(c, key) IN
    IF ~cfg.enabled \/ i = 0 THEN
        [cache |-> c, stats |-> st, item |-> None, result |-> None]
    ELSE IF t > c[i].expiresAt THEN
        [cache |-> RemoveAt(c, i), stats |-> st,
         item |-> Some(c[i]), result |-> None]
    ELSE
        [cache |-> [c EXCEPT ![i].accessCount = @ + 1],
         stats |-> [st EXCEPT !.hits = @ + 1],
         item |-> Some(c[i]), result |-> Some(ShallowCopy(c[i].result))]

\* CacheManager.get: the map and the counters after it, the item it looked
\* at, and what it returns.
CacheGet(c, st, cfg, key, t) ==
    LET i == KeyIndex(c, key) IN
    IF ~cfg.enabled \/ i = 0 THEN
        [cache |-> c, stats |-> [st EXCEPT !.misses = @ + 1],
         item |-> None, result |-> None]
    ELSE IF t > c[i].expiresAt THEN
        [cache |-> RemoveAt(c, i), stats |-> [st EXCEPT !.misses = @ + 1],
         item |-> Some(c[i]), result |-> None]
    ELSE
        [cache |-> [c EXCEPT ![i].accessCount = @ + 1],
         stats |-> [st EXCEPT !.hits = @ + 1],
         item |-> Some(c[i]), result |-> Some(ShallowCopy(c[i].result))]

\* Array.prototype.sort by an integer field, ascending and stable, as a
\* sequence of indices into c.
RECURSIVE OrderBy(_, _, _)
OrderBy(c, field, left) ==
    IF left = {} THEN <<>>
    ELSE LET i == CHOOSE a \in left :
                    \A b \in left : c[a][field] < c[b][field]
                                    \/ (c[a][field] = c[b][field] /\ a <= b)
         IN <<i>> \o OrderBy(c, field, left \ {i})

\* The body shared by evictOldestItems and evictLeastUsed: clear a map of at
\* most `count` items, else delete the first `count` entries in the order of
\* `field`.
RemoveFirstBy(c, field, count) ==
    IF Len(c) <= count THEN <<>>
    ELSE LET order == OrderBy(c, field, 1..Len(c))
             \* `if (entry && entry[0])`: an item under the empty key stays
             gone == {order[n] : n \in {m \in 1..count : c[order[m]].key # <<>>}}
         IN [n \in 1..(Len(c) - Cardinality(gone)) |->
                c[CHOOSE i \in 1..Len(c) :
                     i \notin gone
                     /\ Cardinality({j \in 1..i : j \notin gone}) = n]]

\* CacheManager.evictOldestItems
EvictOldestItems(c, count) == RemoveFirstBy(c, "timestamp", count)

\* CacheManager.evictLeastUsed
EvictLeastUsedItems(c, count) == RemoveFirstBy(c, "accessCount", count)

\* `duration || this.config.duration`: an omitted duration and 0 are falsy.
EffectiveDuration(cfg, duration) ==
    IF duration = None \/ duration = Some(0) THEN cfg.duration ELSE duration[1]

\* CacheManager.set; Map.set keeps the place of a key that is present.
CacheSet(c, cfg, key, result, duration, t) ==
    IF ~cfg.enabled THEN c
    ELSE LET kept == IF Len(c) >= cfg.maxSize
                     THEN EvictOldestItems(c, EvictBatch) ELSE c
             item == [key |-> key, result |-> ShallowCopy(result), timestamp |-> t,
                      expiresAt |-> t + EffectiveDuration(cfg, duration),
                      accessCount |-> 0,
                      ttlArg |-> duration, refreshed |-> FALSE,
                      by |-> 0, orig |-> None]
             i == KeyIndex(kept, key)
         IN IF i = 0 THEN Append(kept, item) ELSE [kept EXCEPT ![i] = item]

\* CacheManager.has
CacheHas(c, cfg, key, t) ==
    cfg.enabled /\ KeyIndex(c, key) # 0 /\ t <= c[KeyIndex(c, key)].expiresAt

\* CacheManager.refresh
CacheRefresh(c, cfg, key, duration, t) ==
    LET i == KeyIndex(c, key) IN
    IF i = 0 THEN c
    ELSE [c EXCEPT ![i].expiresAt = t + EffectiveDuration(cfg, duration),
                   ![i].refreshed = TRUE]

\* CacheManager.cleanup
CacheCleanup(c, t) == SelectSeq(c, LAMBDA e : ~(t > e.expiresAt))

(***************************************************************************)
(* Content type classifier                                                 *)
(***************************************************************************)

\* ContentTypeClassifier.getDefaultRules, in declaration order.  The URL
\* patterns of a rule are tried against metadata.rawData.url, a property
\* that no extractor writes, so a rule is kept here without them.
ClassificationRule(platform, contentType, confidence) ==
    [platform |-> platform, contentType |-> contentType, confidence |-> confidence]

ClassificationRules ==
    << ClassificationRule("youtube", "video", 95),
       ClassificationRule("youtube", "video", 90),
       ClassificationRule("bilibili", "video", 95),
       ClassificationRule("bilibili", "article", 90),
       ClassificationRule("twitter", "tweet", 95),
       ClassificationRule("medium", "article", 90),
       ClassificationRule("zhihu", "discussion", 90),
       ClassificationRule("zhihu", "article", 90),
       ClassificationRule("zhihu", "video", 90),
       ClassificationRule("github", "code_repository", 90),
       ClassificationRule("github", "discussion", 80),
       ClassificationRule("weibo", "tweet", 90),
       ClassificationRule("tiktok", "video", 95),
       ClassificationRule("reddit", "discussion", 90),
       ClassificationRule("stackoverflow", "discussion", 95),
       ClassificationRule("devto", "article", 90),
       ClassificationRule("hackernews", "discussion", 90) >>

ConfidenceThreshold == 60

\* ContentTypeClassifier.applyPlatformRules: the first rule of the platform
\* answers, at 0.8 of its confidence (no rule has metadataPatterns).
ApplyPlatformRules(platform, metadata) ==
    LET platformRules == SelectSeq(ClassificationRules,
                                   LAMBDA r : r.platform = platform) IN
    IF platformRules = <<>> THEN [contentType |-> "generic", confidence |-> 10]
    ELSE [contentType |-> platformRules[1].contentType,
          confidence |-> (platformRules[1].confidence * 8) \div 10]

\* The words the heuristics look for that a token contains, in lower case.
WordsIn(tok) ==
    CASE tok \in {"/watch", "/WATCH"} -> {"watch"}
      [] tok \in {"/video", "/zvideo"} -> {"video"}
      [] tok = "/blog" -> {"blog"}
      [] tok \in {"/article", "/some-article-title"} -> {"article"}
      [] tok = "/post" -> {"post"}
      [] tok \in {"/question", "/questions"} -> {"question"}
      [] tok = "/answer" -> {"answer"}
      [] tok \in {"github.com", "GitHub"} -> {"github"}
      [] tok \in {"www.youtube.com", "youtube.com", "WWW.YOUTUBE.COM", "YouTube"} -> {}
      [] OTHER -> {}

\* `meta.title?.toLowerCase().includes(word)`
TitleIncludes(metadata, word) ==
    /\ metadata.title # <<>>
    /\ \/ word \in WordsIn(metadata.title[1].prefix)
       \/ \E n \in 1..Len(metadata.title[1].text) :
             word \in WordsIn(metadata.title[1].text[n])

\* ContentTypeClassifier.applyHeuristicRules: the first heuristic that holds.
\* No extractor writes duration or wordCount, and no description it writes
\* contains "api" or "documentation", so those three heuristics never hold.
ApplyHeuristicRules(platform, metadata) ==
    LET AnyOf(words) == \E w \in words : TitleIncludes(metadata, w) IN
    IF AnyOf({"video", "watch"}) THEN [contentType |-> "video", confidence |-> 70]
    ELSE IF AnyOf({"blog", "article", "post"})
        THEN [contentType |-> "article", confidence |-> 70]
    ELSE IF AnyOf({"github", "repo", "code"})
        THEN [contentType |-> "code_repository", confidence |-> 80]
    ELSE IF AnyOf({"discussion", "question", "answer"})
        THEN [contentType |-> "discussion", confidence |-> 70]
    ELSE IF AnyOf({"gallery", "photo", "image"})
        THEN [contentType |-> "image_gallery", confidence |-> 70]
    ELSE [contentType |-> "generic", confidence |-> 30]

\* ContentTypeClassifier.classify, heuristic rules enabled (the default)
Classify(platform, metadata) ==
    LET platformResult == ApplyPlatformRules(platform, metadata)
        heuristicResult == ApplyHeuristicRules(platform, metadata)
    IN IF platformResult.confidence >= ConfidenceThreshold
           THEN platformResult.contentType
       ELSE IF heuristicResult.confidence >= ConfidenceThreshold
           THEN heuristicResult.contentType
       ELSE "generic"

(***************************************************************************)
(* Strategy decider                                                        *)
(***************************************************************************)

\* StrategyDecider.getDefaultStrategies, which the service's default
\* userPreferences.defaultStrategies repeats
DefaultStrategies ==
    [article |-> "clip", video |-> "watch_later", tweet |-> "bookmark",
     code_repository |-> "bookmark", documentation |-> "clip",
     discussion |-> "bookmark", image_gallery |-> "bookmark", generic |-> "clip"]

\* The configuration of `new StrategyDecider()`
DefaultDeciderConfig ==
    [defaultStrategies |-> DefaultStrategies,
     enableContextAware |-> TRUE, enableLearning |-> FALSE]


\* A DecisionContext.  `url` is the set of the words tutorial, guide, news
\* that the URL includes; the fields of `metadata` are fields of the
\* context, <<>> when metadata or the field is absent; `title` is a title
\* as written.
EmptyContext ==
    [url |-> None, duration |-> None, wordCount |-> None, language |-> None,
     commentCount |-> None, title |-> None, userHistory |-> None,
     currentQueueSize |-> None, availableStorage |-> None]

\* `title.toLowerCase().includes(word)`
TitleLowerIncludes(title, word) ==
    CASE title \in {"Vim Tutorial", "TUTORIAL"} -> word = "tutorial"
      [] title \in {"Daily News", "news"} -> word = "news"
      [] OTHER -> FALSE

UrlIncludes(ctx, word) == ctx.url # None /\ word \in ctx.url[1]

TitleIncludesWord(ctx, word) ==
    ctx.title # None /\ TitleLowerIncludes(ctx.title[1], word)

\* `x && ...` on an optional number: present and not 0
Truthy(x) == x # None /\ x[1] # 0

\* 50 * 1024 * 1024
StorageThreshold == 52428800

\* StrategyDecider.getContextRules: the strategy of each rule
ContextRuleStrategy ==
    <<"clip", "watch_later", "watch_later", "bookmark", "clip", "bookmark",
      "clip", "bookmark">>

\* StrategyDecider.getContextRules: the condition of rule k
ContextRuleCondition(k, type, ctx) ==
    CASE k = 1 -> type = "video" /\ Truthy(ctx.duration) /\ ctx.duration[1] < 300
      [] k = 2 -> /\ type = "video" /\ ctx.currentQueueSize # None
                  /\ ctx.currentQueueSize[1] < 5
      [] k = 3 -> /\ type = "article" /\ Truthy(ctx.wordCount)
                  /\ ctx.wordCount[1] > 5000
      [] k = 4 -> /\ type = "article" /\ ctx.availableStorage # None
                  /\ ctx.availableStorage[1] < StorageThreshold
      [] k = 5 -> /\ type \in {"code_repository", "documentation"}
                  /\ ctx.language = Some("zh")
      [] k = 6 -> /\ type = "discussion" /\ Truthy(ctx.commentCount)
                  /\ ctx.commentCount[1] > 100
      [] k = 7 -> \/ UrlIncludes(ctx, "tutorial") \/ UrlIncludes(ctx, "guide")
                  \/ TitleIncludesWord(ctx, "tutorial")
      [] k = 8 -> UrlIncludes(ctx, "news") \/ TitleIncludesWord(ctx, "news")

\* `x || 0` on an optional number
OrZero(x) == IF x = None THEN 0 ELSE x[1]

\* StrategyDecider.getContextRules: the matchQuality of rule k, in hundredths
ContextRuleQuality(k, type, ctx) ==
    CASE k = 1 -> IF OrZero(ctx.duration) < 60 THEN 90 ELSE 70
      [] k = 2 -> 80
      [] k = 3 -> IF OrZero(ctx.wordCount) > 10000 THEN 90 ELSE 70
      [] k = 4 -> 90
      [] k = 5 -> 80
      [] k = 6 -> IF OrZero(ctx.commentCount) > 500 THEN 90 ELSE 70
      [] k = 7 -> 80
      [] k = 8 -> 70

\* `this.config.defaultStrategies[contentType] || 'clip'`
DefaultStrategyOf(cfg, type) ==
    IF type \in DOMAIN cfg.defaultStrategies
    THEN cfg.defaultStrategies[type] ELSE "clip"

\* A loop in which a rule of equal quality replaces bestMatch
RECURSIVE BestMatchLastWins(_, _, _, _)
BestMatchLastWins(k, bestMatch, type, ctx) ==
    IF k > Len(ContextRuleStrategy) THEN bestMatch
    ELSE IF /\ ContextRuleCondition(k, type, ctx)
            /\ \/ bestMatch = None
               \/ ContextRuleQuality(k, type, ctx) >= bestMatch[1].confidence
         THEN BestMatchLastWins(k + 1,
                  Some([strategy |-> ContextRuleStrategy[k],
                        confidence |-> ContextRuleQuality(k, type, ctx),
                        rule |-> k]),
                  type, ctx)
         ELSE BestMatchLastWins(k + 1, bestMatch, type, ctx)

\* The loop of applyContextRules from rule k on: bestMatch (<<>> for null)
\* is replaced by a rule whose condition holds and whose quality is greater.
RECURSIVE BestMatchFrom(_, _, _, _)
BestMatchFrom(k, bestMatch, type, ctx) ==
    IF k > Len(ContextRuleStrategy) THEN bestMatch
    ELSE IF /\ ContextRuleCondition(k, type, ctx)
            /\ \/ bestMatch = None
               \/ ContextRuleQuality(k, type, ctx) > bestMatch[1].confidence
         THEN BestMatchFrom(k + 1,
                  Some([strategy |-> ContextRuleStrategy[k],
                        confidence |-> ContextRuleQuality(k, type, ctx),
                        rule |-> k]),
                  type, ctx)
         ELSE BestMatchFrom(k + 1, bestMatch, type, ctx)

\* What applyContextRules returns for its bestMatch; `rule` is the rule that
\* answered, 0 for none.
ContextAnswer(cfg, type, bestMatch) ==
    IF bestMatch # None THEN bestMatch[1]
    ELSE [strategy |-> DefaultStrategyOf(cfg, type), confidence |-> 70, rule |-> 0]

\* StrategyDecider.applyContextRules
ApplyContextRules(cfg, type, ctx) ==
    ContextAnswer(cfg, type, BestMatchFrom(1, None, type, ctx))

\* Date.now() at a decision, in periods of thirty days
DecisionTime == 2

\* `Math.exp(-age / (30 * 24 * 60 * 60 * 1000))`, in hundredths
Weight(age) ==
    CASE age = 0 -> 100
      [] age = 1 -> 37
      [] age = 2 -> 14
      [] OTHER -> 5

\* `.filter(d => d.contentType === contentType).sort((a, b) => b.timestamp -
\* a.timestamp)`: the decisions of the type, the most recent first, equal
\* timestamps in the order of the list.
SimilarDecisions(ds, type) ==
    LET same == SelectSeq(ds, LAMBDA d : d.contentType = type)
        rank(a) == Cardinality({b \in 1..Len(same) :
                       \/ same[b].timestamp > same[a].timestamp
                       \/ same[b].timestamp = same[a].timestamp /\ b <= a})
    IN [n \in 1..Len(same) |-> same[CHOOSE a \in 1..Len(same) : rank(a) = n]]

\* strategyCounts.get(strategy): the sum of the weights of its decisions
StrategyCount(similar, strategy) ==
    LET of == SelectSeq(similar, LAMBDA d : d.strategy = strategy)
        sum[n \in 0..Len(of)] ==
            IF n = 0 THEN 0 ELSE sum[n - 1] + Weight(DecisionTime - of[n].timestamp)
    IN sum[Len(of)]

\* The loop over strategyCounts.entries(), which are in the order in which
\* the strategies first appear in `similar`: the first strategy of the
\* greatest count.
BestStrategy(similar) ==
    LET first(st) == CHOOSE n \in 1..Len(similar) :
                        /\ similar[n].strategy = st
                        /\ \A m \in 1..(n - 1) : similar[m].strategy # st
        sts == {similar[n].strategy : n \in 1..Len(similar)}
    IN CHOOSE st \in sts :
          \A other \in sts \ {st} :
             \/ StrategyCount(similar, st) > StrategyCount(similar, other)
             \/ /\ StrategyCount(similar, st) = StrategyCount(similar, other)
                /\ first(st) < first(other)

\* The satisfaction bonus: a fifth of the mean of the satisfactions given
SatisfactionBonus(similar) ==
    LET given == SelectSeq(similar, LAMBDA d : d.satisfaction # None)
        sum[n \in 0..Len(given)] ==
            IF n = 0 THEN 0 ELSE sum[n - 1] + given[n].satisfaction[1]
    IN IF Len(given) = 0 THEN 0 ELSE (sum[Len(given)] \div Len(given)) \div 5

\* `Math.min(0.9, x)`
AtMostNinety(x) == IF x < 90 THEN x ELSE 90

\* The learned answer for a list of decisions of the type that is not empty
\* (confidences rounded down to hundredths).
LearnedFrom(similar) ==
    [strategy |-> BestStrategy(similar),
     confidence |->
        AtMostNinety((StrategyCount(similar, BestStrategy(similar)) * 100)
                   \div (StrategyCount(similar, "clip")
                         + StrategyCount(similar, "watch_later")
                         + StrategyCount(similar, "bookmark")
                         + StrategyCount(similar, "ignore"))
                + SatisfactionBonus(similar))]

\* StrategyDecider.applyLearning, called with a userHistory
ApplyLearning(cfg, type, ctx) ==
    IF Len(SimilarDecisions(ctx.userHistory[1], type)) = 0
    THEN [strategy |-> DefaultStrategyOf(cfg, type), confidence |-> 50]
    ELSE LearnedFrom(SimilarDecisions(ctx.userHistory[1], type))

\* The alternatives of decideWithDetails
Alternatives(cfg, type, ctx, contextual, finalStrategy) ==
    (IF contextual
     THEN <<[strategy |-> DefaultStrategyOf(cfg, type), confidence |-> 70,
             reason |-> "default"]>>
     ELSE <<>>)
    \o (IF /\ cfg.enableLearning /\ ctx.userHistory # None
           /\ ApplyLearning(cfg, type, ctx).strategy # finalStrategy
        THEN <<[strategy |-> ApplyLearning(cfg, type, ctx).strategy,
                confidence |-> ApplyLearning(cfg, type, ctx).confidence,
                reason |-> "learning"]>>
        ELSE <<>>)

\* The decision of decideWithDetails given what applyContextRules answered
\* (the reasoning texts are left out).
DecisionGiven(cfg, type, ctx, contextResult) ==
    IF cfg.enableContextAware /\ contextResult.strategy # DefaultStrategyOf(cfg, type)
    THEN [strategy |-> contextResult.strategy,
          confidence |-> contextResult.confidence,
          alternatives |-> Alternatives(cfg, type, ctx, TRUE, contextResult.strategy)]
    ELSE [strategy |-> DefaultStrategyOf(cfg, type),
          confidence |-> 80,
          alternatives |-> Alternatives(cfg, type, ctx, FALSE,
                                        DefaultStrategyOf(cfg, type))]

\* A decider whose learned strategy replaces the strategy decided
DecideWithDetailsLearned(cfg, type, ctx) ==
    IF cfg.enableLearning /\ ctx.userHistory # None
    THEN [DecisionGiven(cfg, type, ctx, ApplyContextRules(cfg, type, ctx))
             EXCEPT !.strategy = ApplyLearning(cfg, type, ctx).strategy]
    ELSE DecisionGiven(cfg, type, ctx, ApplyContextRules(cfg, type, ctx))

\* StrategyDecider.decideWithDetails: the decision returned
DecideWithDetailsIn(cfg, type, ctx) ==
    DecisionGiven(cfg, type, ctx, ApplyContextRules(cfg, type, ctx))

\* `{ ...a, ...b }` on maps from content types to strategies
Merged(a, b) ==
    [k \in DOMAIN a \cup DOMAIN b |-> IF k \in DOMAIN b THEN b[k] ELSE a[k]]

\* `new StrategyDecider(this.config.userPreferences)`: the preferences are
\* taken as the configuration of the decider, so their defaultStrategies
\* are laid over the decider's own and the two switches keep their defaults.
ServiceDeciderConfig ==
    [defaultStrategies |-> Merged(DefaultStrategies, prefs),
     enableContextAware |-> TRUE, enableLearning |-> FALSE]

\* A decider that answers clip whatever the content type
DecideClipAlways(contentType) == "clip"

\* StrategyDecider.decide(contentType) as detect calls it: with the
\* service's decider and an empty context.  The history that decider keeps
\* is private to the service and, learning being off, read by nothing; it
\* is left out.
Decide(contentType) ==
    DecideWithDetailsIn(ServiceDeciderConfig, contentType, EmptyContext).strategy

\* 1000 entries may be held, and the last 500 are kept when there are more.
HistoryLimit == 1000
HistoryKept == 500

\* A pruning that keeps the oldest entries
PrunedOldest(history) ==
    IF Len(history) > HistoryLimit THEN SubSeq(history, 1, HistoryKept) ELSE history

\* `this.decisionHistory.slice(-500)` when the length is more than 1000
Pruned(history) ==
    IF Len(history) > HistoryLimit
    THEN SubSeq(history, Len(history) - HistoryKept + 1, Len(history))
    ELSE history

\* StrategyDecider.recordDecision; `n` is the number of the decision, in
\* the place of its timestamp.  The context of the entry, which nothing
\* reads, is left out.
RecordDecision(cfg, history, type, strategy, ctx, n) ==
    IF ~cfg.enableLearning THEN history
    ELSE Pruned(Append(history, [contentType |-> type, strategy |-> strategy,
                                 n |-> n]))

(***************************************************************************)
(* PlatformDetectorService.detect                                          *)
(*                                                                         *)
(* A result's `metadata` is a reference to a metadata object of the heap   *)
(* (0 for undefined), whose `rawData` is a reference to a rawData object.  *)
(* A call runs in segments, from one await to the next; `pc` names the     *)
(* await it is suspended at.                                               *)
(***************************************************************************)

EmptyHeap == [meta |-> <<>>, raw |-> <<>>]

\* A new metadata object and a new rawData object for the record m.
Alloc(h, m) ==
    LET raw == Append(h.raw, m.rawData) IN
    [meta |-> Append(h.meta, [m EXCEPT !.rawData = Len(raw)]), raw |-> raw]

\* `{ ...cachedResult.metadata }`: a new metadata object with the same
\* property values, so with the same rawData object.
CopyMetadata(h, ref) == [h EXCEPT !.meta = Append(@, h.meta[ref])]

\* The value of a result, nested objects included.
DeepValue(h, result) ==
    [result EXCEPT !.metadata =
        IF result.metadata = 0 THEN None
        ELSE Some([h.meta[result.metadata] EXCEPT !.rawData = h.raw[@]])]

\* What a failure is: an Error with a message, an Error with an empty
\* message, or a thrown value that is not an Error.
ThrownKinds == {"Error", "EmptyError", "NonError"}

\* `error instanceof Error ? error.message : '未知错误'`
ErrorMessage(thrown) ==
    CASE thrown = "Error" -> "message"
      [] thrown = "EmptyError" -> ""
      [] OTHER -> "unknown-error"

\* The result built by the catch of detect.
FallbackResult(thrown) ==
    [platform |-> "generic", contentType |-> "generic", confidence |-> 10,
     matchedPattern |-> Undefined, metadata |-> 0,
     processingStrategy |-> "clip", error |-> ErrorMessage(thrown)]

NoFault == [site |-> "none", thrown |-> "none"]

FaultsAt(sites) == {[site |-> s, thrown |-> k] : s \in sites, k \in ThrownKinds}

NoPlatformResult ==
    [platform |-> Undefined, confidence |-> 0, matchedPattern |-> Undefined,
     extractedId |-> <<>>]

\* detect without its try/catch: the failure leaves the call.
DetectRaises(call, fault) ==
    [call EXCEPT !.pc = "raised", !.failure = "raised", !.site = fault.site]

\* The catch of detect: the call returns the fallback result.
DetectCatch(call, fault) ==
    LET thrown == fault.thrown IN
    [call EXCEPT !.pc = "done", !.failure = "caught", !.site = fault.site,
                 !.ret = Some(FallbackResult(thrown)),
                 !.retValue = Some(DeepValue(EmptyHeap, FallbackResult(thrown)))]

\* The configuration a MetadataExtractor has when none is given.
DefaultExtractorConfig ==
    [enablePlatformAPI |-> TRUE, enableJSONLD |-> TRUE, enableOGTags |-> TRUE]

\* The state a segment of detect works on.
World ==
    [cache |-> cache, stats |-> stats, lastGet |-> lastGet, heap |-> heap,
     calls |-> calls]

\* The items of the map that a get would still answer at time t, by the
\* call that stored each.
LiveAt(c, t) == {c[n].by : n \in {m \in 1..Len(c) : t <= c[m].expiresAt}}

\* detect, from the call to `await this.cacheManager.get(normalizedUrl)`.
\* Besides the locals of the call the record keeps what the call did
\* (`matched`, `extracted`), the failure it met (`site`, where it was raised;
\* `failure`, whether the catch of detect caught it or the extraction
\* absorbed it), which calls had returned and which items were live when it
\* began, how many calls had finished when it finished (`seq`), and the
\* value of its result when it returned.
StartDetect(w, url, fault, t, ccfg) ==
    LET key == NormalizeUrl(url)
        got == CacheGet(w.cache, w.stats, ccfg, key, t)
        call == [url |-> url, key |-> key, pc |-> "afterGet", hit |-> None,
                 hitOrig |-> None, platformResult |-> NoPlatformResult,
                 metadata |-> 0, ret |-> None, retValue |-> None,
                 failure |-> "none", site |-> "none", seq |-> 0,
                 matched |-> FALSE, extracted |-> FALSE,
                 after |-> {i \in 1..Len(w.calls) : w.calls[i].pc = "done"},
                 live |-> IF ccfg.enabled THEN LiveAt(w.cache, t) ELSE {}]
    IN IF fault # NoFault
       THEN [w EXCEPT !.calls = Append(@, DetectCatch(call, fault))]
       ELSE [w EXCEPT
               !.cache = got.cache, !.stats = got.stats,
               !.lastGet = Some([key |-> key, result |-> got.result]),
               !.calls = Append(@,
                   [call EXCEPT !.hit = got.result,
                                !.hitOrig = IF got.result = None THEN None
                                            ELSE got.item[1].orig])]

\* detect, from the answer of the cache to the next await: the return of
\* the cached result, or `await this.ruleManager.detectPlatform(...)`.
ResumeAfterGet(w, i, fault, rs) ==
    LET call == w.calls[i] IN
    IF call.hit # None THEN
        LET cachedResult == call.hit[1]
            h == IF cachedResult.metadata = 0 THEN w.heap
                 ELSE CopyMetadata(w.heap, cachedResult.metadata)
            result == [cachedResult EXCEPT
                         !.metadata = IF @ = 0 THEN 0 ELSE Len(h.meta)]
        IN [w EXCEPT !.heap = h,
                     !.calls[i] = [call EXCEPT
                                     !.pc = "done", !.ret = Some(result),
                                     !.retValue = Some(DeepValue(h, result))]]
    ELSE IF fault # NoFault THEN
        [w EXCEPT !.calls[i] = DetectCatch(call, fault)]
    ELSE
        [w EXCEPT !.calls[i] =
            [call EXCEPT !.pc = "afterMatch", !.matched = TRUE,
                         !.platformResult = DetectPlatformIn(rs, call.key)]]

\* `this.config.enableMetadataExtraction && platformResult.platform !== 'generic'`
ExtractApplies(call, dcfg) ==
    dcfg.enableMetadataExtraction /\ call.platformResult.platform # "generic"

\* Every step of the chain throws.
StepsThrow == [api |-> "throw", og |-> "throw", jsonld |-> "throw", meta |-> "throw"]

\* `metadata = await ...extract(...)`: the call holds the new metadata
\* object, the last one of the heap h.
MetadataAssigned(w, i, o, h) ==
    [w EXCEPT !.heap = h,
              !.calls[i] =
                 [w.calls[i] EXCEPT
                    !.pc = "afterExtract", !.extracted = TRUE,
                    !.metadata = Len(h.meta),
                    !.failure = IF o = StepsThrow THEN "absorbed" ELSE "none",
                    !.site = IF o = StepsThrow THEN "extract-step" ELSE "none"]]

\* detect, `await this.metadataExtractor.extract(...)` inside its own
\* try/catch: a failure of extract leaves metadata undefined.  The service
\* builds its extractor with the default configuration.
StartExtract(w, i, o, fault) ==
    LET call == w.calls[i] IN
    IF fault # NoFault THEN
        [w EXCEPT !.calls[i] =
            [call EXCEPT !.pc = "afterExtract", !.extracted = TRUE,
                         !.failure = "absorbed", !.site = fault.site]]
    ELSE
        MetadataAssigned(w, i, o,
            Alloc(w.heap, MetadataExtract(DefaultExtractorConfig, call.key,
                                          call.platformResult.platform, o)))

\* An item's record of the call that stored it.
Stamp(c, key, by, orig) ==
    IF KeyIndex(c, key) = 0 THEN c
    ELSE [c EXCEPT ![KeyIndex(c, key)].by = by,
                   ![KeyIndex(c, key)].orig = Some(orig)]

\* detect, from the classification to the return of the result (the await
\* of set, which is synchronous, is not a separate segment).
FinishDetect(w, i, fault, t, ccfg) ==
    LET call == w.calls[i]
        metadata == IF call.metadata = 0 THEN NoMetadata
                    ELSE [w.heap.meta[call.metadata] EXCEPT
                            !.rawData = w.heap.raw[@]]
        contentType == Classify(call.platformResult.platform, metadata)
        result == [platform |-> call.platformResult.platform,
                   contentType |-> contentType,
                   confidence |-> call.platformResult.confidence,
                   matchedPattern |-> call.platformResult.matchedPattern,
                   metadata |-> call.metadata,
                   processingStrategy |-> Decide(contentType),
                   error |-> Undefined]
        stored == CacheSet(w.cache, ccfg, call.key, result, None, t)
    IN IF fault # NoFault THEN
           [w EXCEPT !.calls[i] = DetectCatch(call, fault)]
       ELSE
           [w EXCEPT
              !.cache = IF ccfg.enabled
                        THEN Stamp(stored, call.key, i, DeepValue(w.heap, result))
                        ELSE stored,
              !.calls[i] = [call EXCEPT
                              !.pc = "done", !.ret = Some(result),
                              !.retValue = Some(DeepValue(w.heap, result))]]

(***************************************************************************)
(* PlatformDetectorService.detectBatch                                     *)
(***************************************************************************)

BatchSize == 5

\* A window end that is the end of the list
EndOfList(a, b) == b

Min(a, b) == IF a <= b THEN a ELSE b

\* `batch.map(url => this.detect(url))`: detect is called for each URL of the
\* window in turn, and each call runs to its first await.
RECURSIVE StartAll(_, _, _, _, _)
StartAll(w, urls, k, t, ccfg) ==
    IF k > Len(urls) THEN w
    ELSE StartAll(StartDetect(w, urls[k], NoFault, t, ccfg), urls, k + 1, t, ccfg)

\* The calls that StartAll adds for n URLs.
NewCalls(w, n) == [k \in 1..n |-> Len(w.calls) + k]

\* The results of the calls of the window in the order the calls finished.
WindowResultsAsCompleted(cs, window) ==
    [k \in 1..Len(window) |->
        cs[CHOOSE id \in {window[n] : n \in 1..Len(window)} :
              Cardinality({window[n] : n \in {m \in 1..Len(window) :
                                                cs[window[m]].seq <= cs[id].seq}}) = k
          ].ret[1]]

\* The array Promise.all resolves to: the results of the calls of the
\* window in the order of the calls.
WindowResults(cs, window) == [k \in 1..Len(window) |-> cs[window[k]].ret[1]]

\* detectBatch after `i += batchSize`: the next window is started, or the
\* results are returned.
NextWindow(w, b, t, ccfg) ==
    IF b.i < Len(b.urls) THEN
        LET urls == SubSeq(b.urls, b.i + 1, Min(b.i + BatchSize, Len(b.urls))) IN
        [world |-> StartAll(w, urls, 1, t, ccfg),
         batch |-> [b EXCEPT !.window = NewCalls(w, Len(urls)), !.pc = "window"]]
    ELSE [world |-> w, batch |-> [b EXCEPT !.window = <<>>, !.pc = "returned"]]

IsSortedByPriority(rs) ==
    \A i \in 1..Len(rs) - 1 : rs[i].priority >= rs[i + 1].priority

(***************************************************************************)
(* Bounds and inputs                                                       *)
(***************************************************************************)

\* White-space characters put before and after a URL under normalization.
MaxPad == 1
\* Query parameters of a URL under normalization.
MaxParams == 2
\* Rules in the rule list besides the built-in ones.
MaxCustom == 2
\* The clock stops here.
MaxTime == 2
\* Calls of detect.
MaxCalls == 2
\* URLs passed to detectBatch.
MaxUrls == 6
\* Calls of get between two calls of clear.
MaxGets == 1


SeqsUpTo(S, n) == UNION {[1..k -> S] : k \in 0..n}

UrlBodies ==
    {<<scheme, host>> \o path \o query \o frag :
        scheme \in {"https://", "HTTPS://"},
        host \in {"www.youtube.com", "WWW.YOUTUBE.COM", "unknown-blog.example.com"},
        path \in {<<>>, <<"/watch">>, <<"/post", "/my-entry">>},
        query \in {<<>>} \cup
                  {<<"?">> \o ps :
                     ps \in SeqsUpTo({"v=dQw4w9WgXcQ", "utm_source=a", "flag"}, MaxParams)},
        frag \in {<<>>, <<"#frag">>}}

NonUrlBodies == {<<>>, <<"junk">>, <<"JUNK">>, <<"https://">>}

NormalizerInputs ==
    {lead \o body \o trail :
        lead \in SeqsUpTo(JsWhiteSpace, MaxPad),
        body \in UrlBodies \cup NonUrlBodies,
        trail \in SeqsUpTo(JsWhiteSpace, MaxPad)}

YouTubeWatch == <<"https://", "www.youtube.com", "/watch", "?", "v=dQw4w9WgXcQ">>
BlogPost == <<"https://", "unknown-blog.example.com", "/post", "/my-entry">>
MediumArticle == <<"https://", "medium.com", "/@user", "/some-article-title">>
TwitterStatus == <<"https://", "x.com", "/user", "/status", "/123">>
MediumPlain == <<"https://", "medium.com", "/article">>
ZhihuColumn == <<"https://", "zhuanlan.zhihu.com", "/p", "/123">>

RuleCandidates ==
    {[platform |-> p, contentType |-> "article", priority |-> pr, enabled |-> TRUE,
      patterns |-> <<AnyYouTube.text>>] :
        p \in {"devto", "tiktok"}, pr \in {50, 120}}

RuleUpdates ==
    {[priority |-> 5], [priority |-> 120], [enabled |-> FALSE],
     [priority |-> 120, enabled |-> TRUE]}

RuleUrls == {YouTubeWatch, BlogPost, <<"junk">>}

(***************************************************************************)
(* Initial values of each component                                        *)
(***************************************************************************)

NormalizerIdle == nIn = <<>> /\ nOut = <<>> /\ nPc = "idle"

RuleManagerDefault ==
    rules = InitializeRules(<<>>) /\ rmDynamic = FALSE /\ lastMatch = None

\* No rule manager: the component under specification is used on its own.
NoRuleManager == rules = <<>> /\ rmDynamic = FALSE /\ lastMatch = None

ExtractorIdle == xReq = None /\ xRes = None

CacheDefault ==
    /\ cache = <<>> /\ stats = [hits |-> 0, misses |-> 0] /\ now = 0
    /\ cacheCfg = [enabled |-> TRUE, duration |-> 2, maxSize |-> 2]
    /\ lastGet = None

DetectorIdle ==
    /\ heap = EmptyHeap /\ calls = <<>> /\ batch = None
    /\ detCfg = [enableMetadataExtraction |-> TRUE]

\* The preferences of a new service; a decider built without a
\* configuration that has decided nothing.
DeciderIdle ==
    /\ prefs = DefaultStrategies
    /\ deciderConfig = DefaultDeciderConfig
    /\ decisionHistory = <<>> /\ decided = 0 /\ lastDecision = None

(***************************************************************************)
(* Normalizer: normalizeUrl applied to an input, then to its own output    *)
(***************************************************************************)

NormalizeInput ==
    /\ nPc = "input"
    /\ nOut' = <<NormalizeUrl(nIn)>>
    /\ nPc' = "once"
    /\ UNCHANGED <<nIn, ruleVars, extVars, decVars, cacheVars, detVars>>

NormalizeAgain ==
    /\ nPc = "once"
    /\ nOut' = Append(nOut, NormalizeUrl(nOut[1]))
    /\ nPc' = "twice"
    /\ UNCHANGED <<nIn, ruleVars, extVars, decVars, cacheVars, detVars>>

InitNormalizer ==
    /\ nIn \in NormalizerInputs /\ nOut = <<>> /\ nPc = "input"
    /\ NoRuleManager /\ ExtractorIdle /\ DeciderIdle /\ CacheDefault /\ DetectorIdle

NextNormalizer == NormalizeInput \/ NormalizeAgain

SpecNormalizer == InitNormalizer /\ [][NextNormalizer]_vars

(***************************************************************************)
(* Rule manager operations                                                 *)
(***************************************************************************)

CustomRules(rs) == {i \in 1..Len(rs) : rs[i].patterns = <<AnyYouTube.text>>}

AddRule(rule) ==
    /\ Cardinality(CustomRules(rules)) < MaxCustom
    /\ rules' = AddRuleTo(rules, rule)
    /\ lastMatch' = None
    /\ UNCHANGED <<rmDynamic, normVars, extVars, decVars, cacheVars, detVars>>

UpdateRule(platform, updates) ==
    /\ rules' = UpdateRuleIn(rules, platform, updates)
    /\ lastMatch' = None
    /\ UNCHANGED <<rmDynamic, normVars, extVars, decVars, cacheVars, detVars>>

\* RuleManager.setRuleEnabled
SetRuleEnabled(platform, enabled) ==
    /\ rules' = UpdateRuleIn(rules, platform, [enabled |-> enabled])
    /\ lastMatch' = None
    /\ UNCHANGED <<rmDynamic, normVars, extVars, decVars, cacheVars, detVars>>

\* RuleManager.loadRulesFromUrl: the response is a failure of fetch, a
\* non-2xx status, a JSON value that is no array, or an array of rules.
LoadRulesFromUrl(response) ==
    /\ rmDynamic
    /\ rules' = IF response.kind = "array"
                 THEN SortByPriority(response.rules)
                 ELSE rules
    /\ lastMatch' = None
    /\ UNCHANGED <<rmDynamic, normVars, extVars, decVars, cacheVars, detVars>>

DetectPlatform(url) ==
    /\ lastMatch' = Some([url |-> url, result |-> DetectPlatformIn(rules, url)])
    /\ UNCHANGED <<rules, rmDynamic, normVars, extVars, decVars, cacheVars, detVars>>

LoadResponses ==
    {[kind |-> k, rules |-> <<>>] : k \in {"fetch-failed", "http-error", "not-an-array"}}
    \cup {[kind |-> "array", rules |-> <<lo, hi>>] :
             lo \in {r \in RuleCandidates : r.priority = 50},
             hi \in {r \in RuleCandidates : r.priority = 120}}

InitRules ==
    /\ \E configRules \in {<<>>} \cup {<<a, b>> : a, b \in RuleCandidates} :
          rules = InitializeRules(configRules)
    /\ rmDynamic \in BOOLEAN
    /\ lastMatch = None
    /\ NormalizerIdle /\ ExtractorIdle /\ DeciderIdle /\ CacheDefault /\ DetectorIdle

NextRules ==
    \/ \E rule \in RuleCandidates : AddRule(rule)
    \/ \E platform \in {"youtube", "devto"}, updates \in RuleUpdates :
          UpdateRule(platform, updates)
    \/ \E platform \in {"youtube", "devto"}, enabled \in BOOLEAN :
          SetRuleEnabled(platform, enabled)
    \/ \E response \in LoadResponses : LoadRulesFromUrl(response)
    \/ \E url \in RuleUrls : DetectPlatform(url)

SpecRules == InitRules /\ [][NextRules]_vars

(***************************************************************************)
(* Rule manager: detectPlatform over rule lists with disabled rules, rules *)
(* of several patterns and patterns that are no regular expressions        *)
(***************************************************************************)

MatchCandidates ==
    {[platform |-> p, contentType |-> "article", priority |-> pr, enabled |-> e,
      patterns |-> ps] :
        p \in {"devto", "tiktok"}, pr \in {50, 120}, e \in BOOLEAN,
        ps \in {<<AnyYouTube.text>>, <<InvalidPattern>>,
                <<InvalidPattern, AnyYouTube.text>>}}

MatchUrls == {YouTubeWatch, BlogPost, MediumArticle, <<"junk">>}

\* A rule manager built with the builtin rules and up to two more.
InitMatching ==
    /\ \E extra \in {<<>>} \cup {<<a>> : a \in MatchCandidates}
                      \cup {<<a, b>> : a, b \in MatchCandidates} :
          rules = InitializeRules(BuiltinRules \o extra)
    /\ rmDynamic = FALSE
    /\ lastMatch = None
    /\ NormalizerIdle /\ ExtractorIdle /\ DeciderIdle /\ CacheDefault /\ DetectorIdle

NextMatching ==
    \/ \E platform \in {"youtube", "devto"}, enabled \in BOOLEAN :
          SetRuleEnabled(platform, enabled)
    \/ \E url \in MatchUrls : DetectPlatform(url)

SpecMatching == InitMatching /\ [][NextMatching]_vars

(***************************************************************************)
(* Rule manager with dynamic loading: rules loaded from a URL whose        *)
(* response is an array with entries that are no rules                     *)
(***************************************************************************)

\* An entry of a loaded array that has no patterns
NoPatternsEntry(platform, priority, enabled) ==
    [platform |-> platform, contentType |-> "article", priority |-> priority,
     enabled |-> enabled]

LoadedEntries ==
    {r \in RuleCandidates : r.platform = "devto"}
    \cup {NoPatternsEntry("tiktok", pr, e) : pr \in {50, 120}, e \in BOOLEAN}
    \cup {BuiltinRules[Len(BuiltinRules)]}

ArrayResponses ==
    {[kind |-> "array", rules |-> rs] :
        rs \in {<<a>> : a \in LoadedEntries}
               \cup {<<a, b>> : a, b \in LoadedEntries}}

InitLoading ==
    /\ rules = InitializeRules(<<>>)
    /\ rmDynamic = TRUE
    /\ lastMatch = None
    /\ NormalizerIdle /\ ExtractorIdle /\ DeciderIdle /\ CacheDefault /\ DetectorIdle

NextLoading ==
    \/ \E response \in LoadResponses \cup ArrayResponses : LoadRulesFromUrl(response)
    \/ \E url \in MatchUrls : DetectPlatform(url)

SpecLoading == InitLoading /\ [][NextLoading]_vars

(***************************************************************************)
(* Metadata extractor: one extract(url, platform) call                     *)
(***************************************************************************)

ExtractorConfigs ==
    [enablePlatformAPI : BOOLEAN, enableJSONLD : BOOLEAN, enableOGTags : BOOLEAN]

StepOutcomes ==
    [api : {"null", "record", "throw"}, og : {"ok", "notitle", "throw"},
     jsonld : {"ok", "notitle", "throw"}, meta : {"ok", "throw"}]

\* What the steps yield in the source as it is.
SourceOutcomes == [api |-> "null", og |-> "ok", jsonld |-> "ok", meta |-> "ok"]

Platforms ==
    {"youtube", "bilibili", "twitter", "medium", "zhihu", "github", "weibo",
     "tiktok", "reddit", "stackoverflow", "devto", "hackernews", "generic"}

ExtractUrls == {YouTubeWatch, TwitterStatus, MediumArticle, <<"junk">>}

Extract(cfg, url, platform, o) ==
    /\ xReq' = Some([cfg |-> cfg, url |-> url, platform |-> platform, o |-> o])
    /\ xRes' = Some(MetadataExtract(cfg, url, platform, o))
    /\ UNCHANGED <<normVars, ruleVars, cacheVars, detVars, decVars>>

InitExtractor ==
    /\ ExtractorIdle /\ DeciderIdle
    /\ NormalizerIdle /\ NoRuleManager /\ CacheDefault /\ DetectorIdle

NextExtractor ==
    /\ xReq = None
    /\ \E cfg \in ExtractorConfigs, url \in ExtractUrls, platform \in Platforms,
          o \in StepOutcomes : Extract(cfg, url, platform, o)

SpecExtractor == InitExtractor /\ [][NextExtractor]_vars

(***************************************************************************)
(* Cache manager: its public methods called in any order as time passes    *)
(***************************************************************************)

\* A detection result; `metadata` is a reference into the heap, 0 for none.
DetectionResult(platform, contentType, confidence, strategy) ==
    [platform |-> platform, contentType |-> contentType,
     confidence |-> confidence, matchedPattern |-> Undefined,
     metadata |-> 0, processingStrategy |-> strategy, error |-> Undefined]

CacheKeys == {YouTubeWatch, <<>>}

CacheResults == {DetectionResult("youtube", "video", 90, "embed"),
                 DetectionResult("generic", "generic", 10, "clip")}

\* The duration argument of set and refresh: omitted, 0, or 1 clock tick.
Durations == {None, Some(0), Some(1)}

\* Configurations; the default duration is 2 clock ticks.
CacheConfigs == [enabled : BOOLEAN, duration : {2}, maxSize : {0, 1, 2}]

Get(key) ==
    /\ stats.hits + stats.misses < MaxGets
    /\ LET got == CacheGet(cache, stats, cacheCfg, key, now) IN
        /\ cache' = got.cache
        /\ stats' = got.stats
        /\ lastGet' = Some([key |-> key, result |-> got.result])
    /\ UNCHANGED <<now, cacheCfg>>
    /\ UNCHANGED <<normVars, ruleVars, extVars, decVars, detVars>>

Set(key, result, duration) ==
    /\ cache' = CacheSet(cache, cacheCfg, key, result, duration, now)
    /\ UNCHANGED <<stats, now, cacheCfg, lastGet>>
    /\ UNCHANGED <<normVars, ruleVars, extVars, decVars, detVars>>

Delete(key) ==
    /\ cache' = RemoveKey(cache, key)
    /\ UNCHANGED <<stats, now, cacheCfg, lastGet>>
    /\ UNCHANGED <<normVars, ruleVars, extVars, decVars, detVars>>

\* clear, called directly or by destroy
Clear ==
    /\ cache' = <<>>
    /\ stats' = [hits |-> 0, misses |-> 0]
    /\ UNCHANGED <<now, cacheCfg, lastGet>>
    /\ UNCHANGED <<normVars, ruleVars, extVars, decVars, detVars>>

\* has (and getStats, getKeys): the answer is computed, nothing is written
Has(key) ==
    /\ CacheHas(cache, cacheCfg, key, now) \in BOOLEAN
    /\ UNCHANGED <<cacheVars, normVars, ruleVars, extVars, decVars, detVars>>

Refresh(key, duration) ==
    /\ cache' = CacheRefresh(cache, cacheCfg, key, duration, now)
    /\ UNCHANGED <<stats, now, cacheCfg, lastGet>>
    /\ UNCHANGED <<normVars, ruleVars, extVars, decVars, detVars>>

\* cleanup, called directly or by the interval timer
Cleanup ==
    /\ cache' = CacheCleanup(cache, now)
    /\ UNCHANGED <<stats, now, cacheCfg, lastGet>>
    /\ UNCHANGED <<normVars, ruleVars, extVars, decVars, detVars>>

EvictLeastUsed(count) ==
    /\ cache' = EvictLeastUsedItems(cache, count)
    /\ UNCHANGED <<stats, now, cacheCfg, lastGet>>
    /\ UNCHANGED <<normVars, ruleVars, extVars, decVars, detVars>>

\* Date.now() moves on
Tick ==
    /\ now < MaxTime
    /\ now' = now + 1
    /\ UNCHANGED <<cache, stats, cacheCfg, lastGet>>
    /\ UNCHANGED <<normVars, ruleVars, extVars, decVars, detVars>>

InitCache ==
    /\ NormalizerIdle /\ NoRuleManager /\ ExtractorIdle /\ DeciderIdle /\ DetectorIdle
    /\ cache = <<>> /\ stats = [hits |-> 0, misses |-> 0] /\ now = 0
    /\ cacheCfg \in CacheConfigs
    /\ lastGet = None

NextCache ==
    \/ \E key \in CacheKeys : Get(key)
    \/ \E key \in CacheKeys, result \in CacheResults, duration \in Durations :
           Set(key, result, duration)
    \/ \E key \in CacheKeys : Delete(key)
    \/ Clear
    \/ \E key \in CacheKeys : Has(key)
    \/ \E key \in CacheKeys, duration \in Durations : Refresh(key, duration)
    \/ Cleanup
    \/ \E count \in 1..2 : EvictLeastUsed(count)
    \/ Tick

SpecCache == InitCache /\ [][NextCache]_vars

\* The same cache manager with one result to store and the duration either
\* omitted or one clock tick: what the counters do does not depend on more.
NextCounters ==
    \/ \E key \in CacheKeys : Get(key)
    \/ \E key \in CacheKeys, duration \in {None, Some(1)} :
           Set(key, DetectionResult("youtube", "video", 90, "embed"), duration)
    \/ \E key \in CacheKeys : Delete(key)
    \/ Clear
    \/ \E key \in CacheKeys : Has(key)
    \/ \E key \in CacheKeys : Refresh(key, None)
    \/ Cleanup
    \/ EvictLeastUsed(1)
    \/ Tick

SpecCounters == InitCache /\ [][NextCounters]_vars

(***************************************************************************)
(* Strategy decider: decideWithDetails on a content type and a context     *)
(***************************************************************************)

ContentTypes ==
    {"article", "video", "tweet", "code_repository", "documentation",
     "discussion", "image_gallery", "generic"}

\* StrategyDecider.decideWithDetails
DecideWithDetails(type, ctx) ==
    /\ lastDecision' =
          Some([contentType |-> type, context |-> ctx,
                result |-> DecideWithDetailsIn(deciderConfig, type, ctx)])
    /\ decided' = decided + 1
    /\ decisionHistory' =
          RecordDecision(deciderConfig, decisionHistory, type,
                         DecideWithDetailsIn(deciderConfig, type, ctx).strategy,
                         ctx, decided + 1)
    /\ UNCHANGED <<prefs, deciderConfig>>
    /\ UNCHANGED <<normVars, ruleVars, extVars, cacheVars, detVars>>

\* StrategyDecider.clearDecisionHistory
ClearDecisionHistory ==
    /\ decisionHistory # <<>>
    /\ decisionHistory' = <<>>
    /\ UNCHANGED <<prefs, deciderConfig, decided, lastDecision>>
    /\ UNCHANGED <<normVars, ruleVars, extVars, cacheVars, detVars>>

\* Contexts without a history: every field absent or at a value on either
\* side of each threshold of the context rules.
Contexts ==
    [url : {None, Some({}), Some({"tutorial"}), Some({"news"}),
            Some({"guide", "news"})},
     duration : {None, Some(0), Some(30), Some(120), Some(400)},
     wordCount : {None, Some(6000), Some(20000)},
     language : {None, Some("zh")},
     commentCount : {None, Some(200), Some(600)},
     title : {None, Some("Vim Tutorial"), Some("Daily News")},
     userHistory : {None},
     currentQueueSize : {None, Some(0), Some(5)},
     availableStorage : {None, Some(0), Some(StorageThreshold - 1),
                         Some(StorageThreshold)}]

DeciderConfigs ==
    [defaultStrategies : {DefaultStrategies,
                          [DefaultStrategies EXCEPT !.video = "clip"]},
     enableContextAware : BOOLEAN, enableLearning : {FALSE}]

InitDecider ==
    /\ prefs = DefaultStrategies
    /\ deciderConfig \in DeciderConfigs
    /\ decisionHistory = <<>> /\ decided = 0 /\ lastDecision = None
    /\ NormalizerIdle /\ NoRuleManager /\ ExtractorIdle /\ CacheDefault /\ DetectorIdle

\* One decision of each decider
NextDecider ==
    /\ lastDecision = None
    /\ \E type \in ContentTypes, ctx \in Contexts : DecideWithDetails(type, ctx)

SpecDecider == InitDecider /\ [][NextDecider]_vars

(***************************************************************************)
(* Strategy decider with learning: decisions on contexts that carry a user *)
(* history, by deciders that record their decisions or do not              *)
(***************************************************************************)

MaxDecisions == 2

PastDecision(type, strategy, timestamp, satisfaction) ==
    [contentType |-> type, strategy |-> strategy, timestamp |-> timestamp,
     satisfaction |-> satisfaction]

\* userHistory.similarContentDecisions: none, of another type only, one
\* strategy, an old majority against a recent choice, and two strategies of
\* equal weight.
UserHistories ==
    {<<>>,
     <<PastDecision("article", "bookmark", 2, None)>>,
     <<PastDecision("video", "clip", 2, Some(100))>>,
     <<PastDecision("video", "bookmark", 0, None),
       PastDecision("video", "bookmark", 0, Some(50)),
       PastDecision("video", "ignore", 2, None)>>,
     <<PastDecision("video", "bookmark", 1, None),
       PastDecision("video", "watch_later", 1, None),
       PastDecision("article", "ignore", 2, None)>>}

LearningContexts ==
    {[EmptyContext EXCEPT !.userHistory = h, !.duration = d] :
        h \in {None} \cup {Some(u) : u \in UserHistories},
        d \in {None, Some(30)}}

InitLearning ==
    /\ prefs = DefaultStrategies
    /\ deciderConfig \in [defaultStrategies : {DefaultStrategies},
                          enableContextAware : {TRUE}, enableLearning : BOOLEAN]
    /\ decisionHistory = <<>> /\ decided = 0 /\ lastDecision = None
    /\ NormalizerIdle /\ NoRuleManager /\ ExtractorIdle /\ CacheDefault /\ DetectorIdle

NextLearning ==
    \/ /\ decided < MaxDecisions
       /\ \E type \in {"video", "article"}, ctx \in LearningContexts :
             DecideWithDetails(type, ctx)
    \/ ClearDecisionHistory

SpecLearning == InitLearning /\ [][NextLearning]_vars

(***************************************************************************)
(* Strategy decider: a long run of decisions, past the pruning of the      *)
(* decision history                                                        *)
(***************************************************************************)

\* Decisions until the history has been pruned and has grown again.
NextHistory ==
    /\ decided < HistoryLimit + 2
    /\ \E type \in {"video"} : DecideWithDetails(type, EmptyContext)

SpecHistory == InitLearning /\ [][NextHistory]_vars

(***************************************************************************)
(* PlatformDetectorService: detect called again and again by a caller that *)
(* awaits each result, while time passes and the cache is swept or cleared *)
(***************************************************************************)

YouTubeWatchFragment == YouTubeWatch \o <<"#frag">>
YouTubeWatchUpperCase ==
    <<"HTTPS://", "WWW.YOUTUBE.COM", "/watch", "?", "v=dQw4w9WgXcQ">>
YouTubeWatchTracked == YouTubeWatch \o <<"utm_source=a">>

\* Sets of URLs that differ only in fragment, scheme/host letter case or
\* tracking parameters.
UrlFamilies ==
    {{YouTubeWatch, YouTubeWatchFragment, YouTubeWatchUpperCase, YouTubeWatchTracked},
     {TwitterStatus}, {<<"junk">>}, {<<>>}}

DetectUrls == UNION UrlFamilies

\* What the extraction steps do during a detect call: what they do in the
\* source as it is, or every step failing.
DetectOutcomes == {SourceOutcomes, StepsThrow}

ServiceConfigs == [enableMetadataExtraction : BOOLEAN]

\* The cache manager the service builds from cacheEnabled, cacheDuration
\* (1 clock tick here) and maxCacheSize.
ServiceCacheConfigs == [enabled : BOOLEAN, duration : {1}, maxSize : {2}]

\* The calls, each call that has just finished numbered after those that had.
Numbered(cs) ==
    LET finished == {i \in 1..Len(cs) : cs[i].seq > 0} IN
    [i \in 1..Len(cs) |->
        IF cs[i].pc \in {"done", "raised"} /\ cs[i].seq = 0
        THEN [cs[i] EXCEPT !.seq = Cardinality(finished) + 1]
        ELSE cs[i]]

Become(w) ==
    /\ cache' = w.cache /\ stats' = w.stats /\ lastGet' = w.lastGet
    /\ heap' = w.heap /\ calls' = Numbered(w.calls)

Detect(url, fault) ==
    /\ Len(calls) < MaxCalls
    /\ \A i \in 1..Len(calls) : calls[i].pc = "done"
    /\ Become(StartDetect(World, url, fault, now, cacheCfg))
    /\ UNCHANGED <<now, cacheCfg, detCfg, batch>>
    /\ UNCHANGED <<normVars, ruleVars, extVars, decVars>>

AfterGet(i, fault) ==
    /\ calls[i].pc = "afterGet"
    /\ Become(ResumeAfterGet(World, i, fault, rules))
    /\ UNCHANGED <<now, cacheCfg, detCfg, batch>>
    /\ UNCHANGED <<normVars, ruleVars, extVars, decVars>>

AfterMatchExtract(i, o, fault) ==
    /\ calls[i].pc = "afterMatch"
    /\ ExtractApplies(calls[i], detCfg)
    /\ Become(StartExtract(World, i, o, fault))
    /\ UNCHANGED <<now, cacheCfg, detCfg, batch>>
    /\ UNCHANGED <<normVars, ruleVars, extVars, decVars>>

AfterMatchFinish(i, fault) ==
    /\ calls[i].pc = "afterMatch"
    /\ ~ExtractApplies(calls[i], detCfg)
    /\ Become(FinishDetect(World, i, fault, now, cacheCfg))
    /\ UNCHANGED <<now, cacheCfg, detCfg, batch>>
    /\ UNCHANGED <<normVars, ruleVars, extVars, decVars>>

AfterExtract(i, fault) ==
    /\ calls[i].pc = "afterExtract"
    /\ Become(FinishDetect(World, i, fault, now, cacheCfg))
    /\ UNCHANGED <<now, cacheCfg, detCfg, batch>>
    /\ UNCHANGED <<normVars, ruleVars, extVars, decVars>>

\* PlatformDetectorService.clearCache
ClearCache ==
    /\ cache # <<>> \/ stats # [hits |-> 0, misses |-> 0]
    /\ cache' = <<>>
    /\ stats' = [hits |-> 0, misses |-> 0]
    /\ UNCHANGED <<now, cacheCfg, lastGet, detVars>>
    /\ UNCHANGED <<normVars, ruleVars, extVars, decVars>>

\* The interval timer of the cache manager, started when the cache is enabled
CleanupTimer ==
    /\ cacheCfg.enabled
    /\ cache' = CacheCleanup(cache, now)
    /\ UNCHANGED <<stats, now, cacheCfg, lastGet, detVars>>
    /\ UNCHANGED <<normVars, ruleVars, extVars, decVars>>

Pass ==
    /\ now < MaxTime
    /\ now' = now + 1
    /\ UNCHANGED <<cache, stats, cacheCfg, lastGet, detVars>>
    /\ UNCHANGED <<normVars, ruleVars, extVars, decVars>>

Init ==
    /\ NormalizerIdle /\ RuleManagerDefault /\ ExtractorIdle /\ DeciderIdle
    /\ cache = <<>> /\ stats = [hits |-> 0, misses |-> 0] /\ now = 0
    /\ cacheCfg \in ServiceCacheConfigs
    /\ lastGet = None
    /\ heap = EmptyHeap /\ calls = <<>> /\ batch = None
    /\ detCfg \in ServiceConfigs

Next ==
    \/ \E url \in DetectUrls : Detect(url, NoFault)
    \/ \E i \in 1..Len(calls) : AfterGet(i, NoFault)
    \/ \E i \in 1..Len(calls), o \in DetectOutcomes : AfterMatchExtract(i, o, NoFault)
    \/ \E i \in 1..Len(calls) : AfterMatchFinish(i, NoFault)
    \/ \E i \in 1..Len(calls) : AfterExtract(i, NoFault)
    \/ ClearCache
    \/ CleanupTimer
    \/ Pass

Spec == Init /\ [][Next]_vars

(***************************************************************************)
(* PlatformDetectorService on the URLs of the documented scenarios, the     *)
(* extraction steps answering, answering without a title, or throwing      *)
(***************************************************************************)

ScenarioUrls == {YouTubeWatch, BlogPost, MediumArticle, MediumPlain, ZhihuColumn}

NextScenarios ==
    \/ \E url \in ScenarioUrls : Detect(url, NoFault)
    \/ \E i \in 1..Len(calls) : AfterGet(i, NoFault)
    \/ \E i \in 1..Len(calls), o \in StepOutcomes : AfterMatchExtract(i, o, NoFault)
    \/ \E i \in 1..Len(calls) : AfterMatchFinish(i, NoFault)
    \/ \E i \in 1..Len(calls) : AfterExtract(i, NoFault)
    \/ ClearCache
    \/ CleanupTimer
    \/ Pass

SpecScenarios == Init /\ [][NextScenarios]_vars

(***************************************************************************)
(* PlatformDetectorService whose preferences are updated between calls     *)
(***************************************************************************)

\* The defaultStrategies of the preferences passed to updatePreferences
StrategyUpdates ==
    {[video |-> "clip"], [video |-> "bookmark", generic |-> "bookmark"]}

\* PlatformDetectorService.updatePreferences({defaultStrategies}): the
\* preferences are merged key by key, so the map of strategies is replaced,
\* and a new decider is built from them.
UpdatePreferences(defaultStrategies) ==
    /\ \A i \in 1..Len(calls) : calls[i].pc = "done"
    /\ prefs' = defaultStrategies
    /\ UNCHANGED <<deciderConfig, decisionHistory, decided, lastDecision>>
    /\ UNCHANGED <<normVars, ruleVars, extVars, cacheVars, detVars>>

PreferenceUrls == {YouTubeWatch, YouTubeWatchFragment, BlogPost}

NextPreferences ==
    \/ \E url \in PreferenceUrls : Detect(url, NoFault)
    \/ \E i \in 1..Len(calls) : AfterGet(i, NoFault)
    \/ \E i \in 1..Len(calls) : AfterMatchExtract(i, SourceOutcomes, NoFault)
    \/ \E i \in 1..Len(calls) : AfterMatchFinish(i, NoFault)
    \/ \E i \in 1..Len(calls) : AfterExtract(i, NoFault)
    \/ \E defaultStrategies \in StrategyUpdates : UpdatePreferences(defaultStrategies)
    \/ Pass

SpecPreferences == Init /\ [][NextPreferences]_vars

(***************************************************************************)
(* PlatformDetectorService with failing components: any of the cache       *)
(* manager, the rule manager, the extractor, the classifier and the        *)
(* strategy decider may raise when detect calls it                         *)
(***************************************************************************)

FaultUrls == {YouTubeWatch, <<"junk">>, <<>>}

NextFaults ==
    \/ \E url \in FaultUrls, fault \in {NoFault} \cup FaultsAt({"cache-get"}) :
          Detect(url, fault)
    \/ \E i \in 1..Len(calls), fault \in {NoFault} \cup FaultsAt({"match"}) :
          AfterGet(i, fault)
    \/ \E i \in 1..Len(calls), o \in DetectOutcomes,
          fault \in {NoFault} \cup FaultsAt({"extract"}) :
          AfterMatchExtract(i, o, fault)
    \/ \E i \in 1..Len(calls),
          fault \in {NoFault} \cup FaultsAt({"classify", "decide", "cache-set"}) :
          AfterMatchFinish(i, fault)
    \/ \E i \in 1..Len(calls),
          fault \in {NoFault} \cup FaultsAt({"classify", "decide", "cache-set"}) :
          AfterExtract(i, fault)

SpecFaults == Init /\ [][NextFaults]_vars

(***************************************************************************)
(* detectBatch: one batch, the calls of a window advancing in any order,   *)
(* rule matching failing for any of them                                   *)
(***************************************************************************)

\* URLs in a batch.
BatchUrls ==
    <<YouTubeWatch, <<"junk">>, TwitterStatus, <<>>, BlogPost,
      YouTubeWatchFragment, MediumArticle>>

BatchInputs == {SubSeq(BatchUrls, 1, n) : n \in 0..MaxUrls}

DetectBatch(urls) ==
    /\ batch = None
    /\ LET start == NextWindow(World, [urls |-> urls, i |-> 0, window |-> <<>>,
                                       results |-> <<>>, pc |-> "window"],
                               now, cacheCfg)
       IN Become(start.world) /\ batch' = Some(start.batch)
    /\ UNCHANGED <<now, cacheCfg, detCfg>>
    /\ UNCHANGED <<normVars, ruleVars, extVars, decVars>>

\* detectBatch, from the answer of Promise.all to the next await or to the
\* return; Promise.all rejects when a call raised, and so does detectBatch.
AwaitWindow ==
    /\ batch # None /\ batch[1].pc = "window"
    /\ \A n \in 1..Len(batch[1].window) :
          calls[batch[1].window[n]].pc \in {"done", "raised"}
    /\ IF \E n \in 1..Len(batch[1].window) : calls[batch[1].window[n]].pc = "raised"
       THEN /\ batch' = Some([batch[1] EXCEPT !.pc = "raised"])
            /\ UNCHANGED <<cache, stats, lastGet, heap, calls>>
       ELSE LET b == [batch[1] EXCEPT
                        !.results = @ \o WindowResults(calls, batch[1].window),
                        !.i = @ + BatchSize]
                start == NextWindow(World, b, now, cacheCfg)
            IN Become(start.world) /\ batch' = Some(start.batch)
    /\ UNCHANGED <<now, cacheCfg, detCfg>>
    /\ UNCHANGED <<normVars, ruleVars, extVars, decVars>>

BatchFaults == {NoFault, [site |-> "match", thrown |-> "Error"]}

InitBatch ==
    /\ NormalizerIdle /\ RuleManagerDefault /\ ExtractorIdle /\ DeciderIdle
    /\ cache = <<>> /\ stats = [hits |-> 0, misses |-> 0] /\ now = 0
    /\ cacheCfg \in ServiceCacheConfigs
    /\ lastGet = None
    /\ heap = EmptyHeap /\ calls = <<>> /\ batch = None
    /\ detCfg = [enableMetadataExtraction |-> TRUE]

NextBatch ==
    \/ \E urls \in BatchInputs : DetectBatch(urls)
    \/ AwaitWindow
    \/ \E i \in 1..Len(calls), fault \in BatchFaults : AfterGet(i, fault)
    \/ \E i \in 1..Len(calls) : AfterMatchExtract(i, SourceOutcomes, NoFault)
    \/ \E i \in 1..Len(calls) : AfterMatchFinish(i, NoFault)
    \/ \E i \in 1..Len(calls) : AfterExtract(i, NoFault)

SpecBatch == InitBatch /\ [][NextBatch]_vars

(***************************************************************************)
(* detectBatch on lists in which a URL comes more than once, in one        *)
(* spelling or two, within a window                                        *)
(***************************************************************************)

OverlapBatches ==
    {<<YouTubeWatch, YouTubeWatchFragment>>,
     <<YouTubeWatch, BlogPost, YouTubeWatch>>,
     <<BlogPost, YouTubeWatchUpperCase, BlogPost, YouTubeWatch>>}

NextOverlap ==
    \/ \E urls \in OverlapBatches : DetectBatch(urls)
    \/ AwaitWindow
    \/ \E i \in 1..Len(calls) : AfterGet(i, NoFault)
    \/ \E i \in 1..Len(calls) : AfterMatchExtract(i, SourceOutcomes, NoFault)
    \/ \E i \in 1..Len(calls) : AfterMatchFinish(i, NoFault)
    \/ \E i \in 1..Len(calls) : AfterExtract(i, NoFault)

SpecOverlap == InitBatch /\ [][NextOverlap]_vars

(***************************************************************************)
(* PlatformDetectorService when a step of the extraction may never answer: *)
(* detect awaits extract, extract awaits the platform function, and the    *)
(* platform function awaits the step.  The timeout of the configuration is *)
(* handed to the extractor and read nowhere, so nothing else settles the   *)
(* promise the call waits for.                                             *)
(***************************************************************************)

\* detect at `await this.metadataExtractor.extract(...)`, a step of the
\* chain not answering: the call stays suspended at the await.
AfterMatchExtractPending(i) ==
    /\ calls[i].pc = "afterMatch"
    /\ ExtractApplies(calls[i], detCfg)
    /\ Become([World EXCEPT !.calls[i] =
                  [@ EXCEPT !.pc = "extracting", !.site = "extract-step"]])
    /\ UNCHANGED <<now, cacheCfg, detCfg, batch>>
    /\ UNCHANGED <<normVars, ruleVars, extVars, decVars>>

PendingBatches == {<<YouTubeWatch, BlogPost>>, <<BlogPost>>}

\* The continuations of the calls and of the batch, which the event loop
\* runs as soon as what they await is settled.
Continuations ==
    \/ \E i \in 1..Len(calls) : AfterGet(i, NoFault)
    \/ \E i \in 1..Len(calls), o \in DetectOutcomes : AfterMatchExtract(i, o, NoFault)
    \/ \E i \in 1..Len(calls) : AfterMatchExtractPending(i)
    \/ \E i \in 1..Len(calls) : AfterMatchFinish(i, NoFault)
    \/ \E i \in 1..Len(calls) : AfterExtract(i, NoFault)
    \/ AwaitWindow

NextPending ==
    \/ \E url \in ScenarioUrls : Detect(url, NoFault)
    \/ \E urls \in PendingBatches : DetectBatch(urls)
    \/ Continuations
    \/ Pass

\* A continuation can run: a call is at an await whose promise is settled,
\* or every call of the window the batch waits for has finished.  This is
\* the enabling condition of Continuations.
Ready ==
    \/ \E i \in 1..Len(calls) : calls[i].pc \in {"afterGet", "afterMatch", "afterExtract"}
    \/ /\ batch # None /\ batch[1].pc = "window"
       /\ \A n \in 1..Len(batch[1].window) :
             calls[batch[1].window[n]].pc \in {"done", "raised"}

\* Weak fairness of Continuations, its enabling condition written as Ready:
\* the event loop does not leave a ready continuation waiting for ever.
ContinuationsRun == []<>(~Ready) \/ []<><<Continuations>>_vars

\* The clock goes on, and ready continuations run.
SpecPending ==
    InitBatch /\ [][NextPending]_vars /\ WF_vars(Pass) /\ ContinuationsRun

(***************************************************************************)
(* PlatformDetectorService and a caller that changes the results it gets   *)
(***************************************************************************)

\* The caller of call i sets a property of the result it got.
MutateResult(i) ==
    /\ calls[i].pc = "done"
    /\ calls[i].ret[1].processingStrategy # "edited"
    /\ calls' = [calls EXCEPT ![i].ret[1].processingStrategy = "edited"]
    /\ UNCHANGED <<heap, detCfg, batch, cacheVars>>
    /\ UNCHANGED <<normVars, ruleVars, extVars, decVars>>

\* The caller of call i sets a property of result.metadata.
MutateMetadata(i) ==
    /\ calls[i].pc = "done"
    /\ calls[i].ret[1].metadata # 0
    /\ heap.meta[calls[i].ret[1].metadata].description # "edited"
    /\ heap' = [heap EXCEPT !.meta[calls[i].ret[1].metadata].description = "edited"]
    /\ UNCHANGED <<calls, detCfg, batch, cacheVars>>
    /\ UNCHANGED <<normVars, ruleVars, extVars, decVars>>

\* The caller of call i sets a property of result.metadata.rawData.
MutateRawData(i) ==
    /\ calls[i].pc = "done"
    /\ calls[i].ret[1].metadata # 0
    /\ LET raw == heap.meta[calls[i].ret[1].metadata].rawData IN
        /\ heap.raw[raw].source # "edited"
        /\ heap' = [heap EXCEPT !.raw[raw].source = "edited"]
    /\ UNCHANGED <<calls, detCfg, batch, cacheVars>>
    /\ UNCHANGED <<normVars, ruleVars, extVars, decVars>>

NextAlias ==
    \/ Next
    \/ \E i \in 1..Len(calls) : MutateResult(i)
    \/ \E i \in 1..Len(calls) : MutateMetadata(i)
    \/ \E i \in 1..Len(calls) : MutateRawData(i)

SpecAlias == Init /\ [][NextAlias]_vars

(***************************************************************************)
(* Properties                                                              *)
(***************************************************************************)

\* The enabled rules of rs that match url and no matching enabled rule outranks.
TopMatching(rs, url) ==
    LET hits == {i \in 1..Len(rs) : RuleMatches(rs[i], Trim(url))} IN
    {i \in hits : \A j \in hits : rs[i].priority >= rs[j].priority}

C6_RulesSorted == IsSortedByPriority(rules)

AllStepsFail(o) ==
    o.api = "throw" /\ o.og = "throw" /\ o.jsonld = "throw" /\ o.meta = "throw"

\* C8: when every step of the chain fails, the record that extract returns
\* has a title derived from the URL path and an error note in rawData.
C8_MinimalRecordOnTotalFailure ==
    (xRes # None /\ AllStepsFail(xReq[1].o)) =>
        /\ xRes[1].title = ExtractTitleFromUrl(xReq[1].url)
        /\ xRes[1].rawData.error # Undefined

ApiUnavailable(req) == ~req.cfg.enablePlatformAPI \/ req.o.api # "record"

\* C9: when the platform-API step is disabled or yields nothing, extract
\* does not return a record whose source is platform-api, and the confidence
\* of the record is at most that of the platform-API step.
C9_NoApiSourceWithoutApi ==
    (xRes # None /\ ApiUnavailable(xReq[1])) =>
        /\ xRes[1].rawData.extractionSource # "platform-api"
        /\ xRes[1].rawData.extractionConfidence # <<>>
        /\ xRes[1].rawData.extractionConfidence[1] <= PlatformApiConfidence

\* The API step is switched off, would have answered, and the chain went on
\* to the OG tags.
C9_Witness ==
    /\ xRes # None
    /\ xReq[1].platform = "youtube"
    /\ ~xReq[1].cfg.enablePlatformAPI
    /\ xReq[1].o.api = "record"
    /\ xRes[1].rawData.extractionSource = "og"

\* C10: normalizeUrl applied to its own output changes nothing.
C10_NormalizeIdempotent == nPc = "twice" => nOut[2] = nOut[1]


\* What the contract of set and get promises for an item: it lasts for the
\* duration passed to set, the configured default when none was passed.
PromisedExpiry(item) ==
    item.timestamp + (IF item.ttlArg = None THEN cacheCfg.duration
                      ELSE item.ttlArg[1])

\* C3: with the cache enabled, a get of a key returns the value of the last
\* set of that key while less than that set's TTL (the configured default when
\* none was passed) has elapsed, and returns absent once more than the TTL has
\* elapsed; the item was not refreshed, deleted or evicted in between.
C3_TtlHonoured ==
    [][\A key \in CacheKeys :
          (Get(key) /\ cacheCfg.enabled /\ KeyIndex(cache, key) # 0) =>
              LET item == cache[KeyIndex(cache, key)] IN
              ~item.refreshed =>
                  /\ now < PromisedExpiry(item) =>
                         lastGet'[1].result = Some(item.result)
                  /\ now > PromisedExpiry(item) => lastGet'[1].result = None]_vars

\* C11: the number of stored entries never exceeds the configured maxSize,
\* whatever the maxSize and whatever cache operations have been called.
C11_SizeWithinMax == Len(cache) <= cacheCfg.maxSize

\* C12: a get adds one to hits when it returns a result and one to misses when
\* it returns absent, and leaves the other counter alone; clear sets both to
\* zero; no other operation changes either counter, so neither ever decreases
\* except by clear.
C12_CountersMonotonic ==
    [][/\ (\E key \in CacheKeys : Get(key)) =>
             IF lastGet'[1].result # None
             THEN stats' = [stats EXCEPT !.hits = @ + 1]
             ELSE stats' = [stats EXCEPT !.misses = @ + 1]
       /\ Clear => stats' = [hits |-> 0, misses |-> 0]
       /\ ~(\E key \in CacheKeys : Get(key)) /\ ~Clear => stats' = stats]_vars

\* A get has returned a result and was counted as a hit while the cache held
\* an entry.
C12_Witness ==
    /\ stats.hits > 0 /\ cache # <<>>
    /\ lastGet # None /\ lastGet[1].result # None

\* The calls of detect on url that have returned.
Returned(url) == {i \in 1..Len(calls) : calls[i].pc = "done" /\ calls[i].url = url}

\* C13: detect on https://unknown-blog.example.com/post/my-entry returns
\* platform generic, contentType article and processingStrategy clip.
C13_BlogPostIsArticle ==
    \A i \in Returned(BlogPost) :
        /\ calls[i].ret[1].platform = "generic"
        /\ calls[i].ret[1].contentType = "article"
        /\ calls[i].ret[1].processingStrategy = "clip"

\* C14: detect on https://www.youtube.com/watch?v=dQw4w9WgXcQ returns platform
\* youtube, contentType video, confidence at least 0.9 and the watch-later
\* strategy, whatever the extraction steps did.
C14_YouTubeWatchIsVideo ==
    \A i \in Returned(YouTubeWatch) :
        /\ calls[i].ret[1].platform = "youtube"
        /\ calls[i].ret[1].contentType = "video"
        /\ calls[i].ret[1].confidence >= 90
        /\ calls[i].ret[1].processingStrategy = "watch_later"
        /\ calls[i].ret[1].error = Undefined

\* Two calls on the YouTube watch URL have returned, one after every
\* extraction step threw and one with metadata from a step that answered.
C14_Witness ==
    /\ \E i \in Returned(YouTubeWatch) : calls[i].site = "extract-step"
    /\ \E i \in Returned(YouTubeWatch) :
          /\ calls[i].site = "none" /\ calls[i].extracted
          /\ calls[i].ret[1].metadata # 0

\* C15: detect on https://medium.com/@user/some-article-title and on
\* https://medium.com/article returns platform medium, contentType article
\* and processingStrategy clip.
C15_MediumIsArticle ==
    \A i \in Returned(MediumArticle) \cup Returned(MediumPlain) :
        /\ calls[i].ret[1].platform = "medium"
        /\ calls[i].ret[1].contentType = "article"
        /\ calls[i].ret[1].processingStrategy = "clip"

\* The detect calls that have begun and not yet returned or raised.
InFlight == {i \in 1..Len(calls) : calls[i].pc \notin {"done", "raised"}}

\* The window of detectBatch that call i belongs to (one batch: call i is the
\* call for urls[i]).
WindowOf(i) == (i - 1) \div BatchSize

\* C16: during detectBatch at most 5 detect calls are in flight, and a call
\* of a later window begins only after every call of the earlier windows has
\* returned.
C16_WindowBoundsConcurrency ==
    /\ Cardinality(InFlight) <= BatchSize
    /\ \A i, j \in 1..Len(calls) :
          WindowOf(i) < WindowOf(j) =>
              /\ calls[i].pc = "done"
              /\ i \in calls[j].after

\* The call of the second window is in flight, after a first window of five
\* calls.
C16_Witness ==
    /\ batch # None /\ batch[1].pc = "window"
    /\ Len(calls) > BatchSize
    /\ \E j \in InFlight : WindowOf(j) = 1

\* The steps of the chain of platform p that come before the URL-derived
\* fallback, each with its outcome: youtube has the platform API (when
\* switched on) and the OG tags, medium the JSON-LD and the OG tags, a
\* generic page the JSON-LD and the OG tags (each when switched on).
ChainOutcomes(req) ==
    CASE req.platform = "youtube" ->
           (IF req.cfg.enablePlatformAPI THEN <<req.o.api>> ELSE <<>>) \o <<req.o.og>>
      [] req.platform = "medium" -> <<req.o.jsonld, req.o.og>>
      [] OTHER ->
           (IF req.cfg.enableJSONLD THEN <<req.o.jsonld>> ELSE <<>>)
             \o (IF req.cfg.enableOGTags THEN <<req.o.og>> ELSE <<>>)

ThrowThenOg(req) ==
    /\ Len(ChainOutcomes(req)) = 2
    /\ ChainOutcomes(req)[1] = "throw"
    /\ ChainOutcomes(req)[2] = "ok"

\* C17: in the chains of youtube, medium and generic pages, when the first
\* step raises and the OG step after it answers, the record returned carries
\* the source og and the confidence of the OG step, not the URL-derived
\* fallback.
C17_NextStepAfterError ==
    (/\ xRes # None
     /\ xReq[1].platform \in {"youtube", "medium", "generic"}
     /\ ThrowThenOg(xReq[1])) =>
        /\ xRes[1].rawData.extractionSource = "og"
        /\ xRes[1].rawData.extractionConfidence =
             <<CASE xReq[1].platform = "youtube" -> 80
                 [] xReq[1].platform = "medium" -> 80
                 [] OTHER -> 60>>

\* C18: a detect call whose extraction waits for a step that never answers
\* eventually returns, and so does a detectBatch that waits for such a call.
C18_UnansweredStepTimesOut ==
    /\ \A i \in 1..(MaxCalls + 2) :
          (i <= Len(calls) /\ calls[i].pc = "extracting")
             ~> (i <= Len(calls) /\ calls[i].pc \in {"done", "raised"})
    /\ (/\ batch # None
        /\ \E n \in 1..Len(batch[1].window) :
              calls[batch[1].window[n]].pc = "extracting")
          ~> (batch # None /\ batch[1].pc \in {"returned", "raised"})

\* The (rule, pattern) pairs of the list rs whose rule is enabled and whose
\* pattern is a regular expression that matches url.
MatchingPairs(rs, url) ==
    {f \in UNION {{<<i, j>> : j \in 1..Len(rs[i].patterns)} : i \in 1..Len(rs)} :
        /\ rs[f[1]].enabled
        /\ IsRegExp(rs[f[1]].patterns[f[2]])
        /\ PatternMatches(rs[f[1]].patterns[f[2]], url)}

Precedes(f, g) == f[1] < g[1] \/ (f[1] = g[1] /\ f[2] <= g[2])

\* C19: detectPlatform returns the platform and the pattern of the first
\* pair, in rule order and then pattern order, whose rule is enabled and
\* whose pattern is a regular expression matching the URL; when there is no
\* such pair it returns platform generic with confidence 0.1.
C19_FirstEnabledPairWins ==
    lastMatch # None =>
        LET pairs == MatchingPairs(rules, lastMatch[1].url)
            result == lastMatch[1].result
        IN IF pairs = {}
           THEN /\ result.platform = "generic" /\ result.confidence = 10
                /\ result.matchedPattern = Undefined
           ELSE \E f \in pairs :
                   /\ \A g \in pairs : Precedes(f, g)
                   /\ result.platform = rules[f[1]].platform
                   /\ result.matchedPattern = rules[f[1]].patterns[f[2]]

\* A disabled rule that would match and a pattern that is no regular
\* expression both come before the pair that answers.
C19_Witness ==
    /\ lastMatch # None
    /\ \E i \in 1..Len(rules), k \in 1..Len(rules) :
          /\ i < k
          /\ ~rules[i].enabled
          /\ RuleMatchesIgnoringEnabled(rules[i], lastMatch[1].url)
          /\ rules[k].enabled
          /\ rules[k].patterns[1] = InvalidPattern
          /\ Len(rules[k].patterns) > 1
          /\ lastMatch[1].result.platform = rules[k].platform
          /\ lastMatch[1].result.matchedPattern = rules[k].patterns[2]

\* C20: detect on https://zhuanlan.zhihu.com/p/123 returns platform zhihu
\* with the content type of the zhihu classification rule whose pattern
\* matches the URL, article, and not that of the first zhihu rule.
C20_ZhihuColumnIsArticle ==
    \A i \in Returned(ZhihuColumn) :
        /\ calls[i].ret[1].platform = "zhihu"
        /\ calls[i].ret[1].contentType = "article"

\* The context rules whose condition holds
Applicable(type, ctx) ==
    {k \in 1..Len(ContextRuleStrategy) : ContextRuleCondition(k, type, ctx)}

\* C21: a decider with context rules switched on returns the strategy of
\* the applicable rule of the highest match quality, the first declared
\* among those of equal quality, and the default strategy of the content
\* type when no rule applies.
C21_BestRuleOrDefault ==
    (lastDecision # None /\ deciderConfig.enableContextAware) =>
        LET type == lastDecision[1].contentType
            ctx == lastDecision[1].context
            ks == Applicable(type, ctx)
        IN IF ks = {}
           THEN lastDecision[1].result.strategy = deciderConfig.defaultStrategies[type]
           ELSE \E k \in ks :
                   /\ \A j \in ks :
                         \/ ContextRuleQuality(j, type, ctx) < ContextRuleQuality(k, type, ctx)
                         \/ /\ ContextRuleQuality(j, type, ctx) = ContextRuleQuality(k, type, ctx)
                            /\ k <= j
                   /\ lastDecision[1].result.strategy = ContextRuleStrategy[k]

\* A rule of lower quality applies and, after it, two rules of the highest
\* quality with different strategies, neither the default: a video of two
\* minutes, a short queue and a tutorial URL.
C21_Witness ==
    /\ lastDecision # None /\ deciderConfig.enableContextAware
    /\ LET type == lastDecision[1].contentType
           ctx == lastDecision[1].context
       IN /\ {1, 2, 7} \subseteq Applicable(type, ctx)
          /\ ContextRuleQuality(1, type, ctx) = 70
          /\ lastDecision[1].result.strategy = "watch_later"
          /\ deciderConfig.defaultStrategies[type] = "clip"

LowStorage(ctx) ==
    ctx.availableStorage # None /\ ctx.availableStorage[1] < StorageThreshold

\* C25: when the context reports less available storage than 50 MB, a
\* decider with context rules switched on returns bookmark, whatever the
\* content type.
C25_LowStorageBookmarks ==
    (/\ lastDecision # None /\ deciderConfig.enableContextAware
     /\ LowStorage(lastDecision[1].context)) =>
        lastDecision[1].result.strategy = "bookmark"

\* The learned strategy of a decision, <<>> when learning is off or the
\* context has no history.
Learned(cfg, decision) ==
    IF cfg.enableLearning /\ decision.context.userHistory # None
    THEN Some(ApplyLearning(cfg, decision.contentType, decision.context).strategy)
    ELSE None

\* C22: the strategy of a decision is the strategy the decider returns for
\* the same content type and the same context with any other user history
\* or none, learning on or off, whatever decisions it has recorded; a
\* learned strategy that differs is among the alternatives.
C22_HistoryIndependent ==
    lastDecision # None =>
        /\ \A h \in {None} \cup {Some(u) : u \in UserHistories}, l \in BOOLEAN :
              DecideWithDetailsIn([deciderConfig EXCEPT !.enableLearning = l],
                                  lastDecision[1].contentType,
                                  [lastDecision[1].context EXCEPT !.userHistory = h]
                                 ).strategy
                = lastDecision[1].result.strategy
        /\ \A st \in {"clip", "watch_later", "bookmark", "ignore"} :
              (/\ Learned(deciderConfig, lastDecision[1]) = Some(st)
               /\ st # lastDecision[1].result.strategy) =>
                 \E n \in 1..Len(lastDecision[1].result.alternatives) :
                    /\ lastDecision[1].result.alternatives[n].strategy = st
                    /\ lastDecision[1].result.alternatives[n].reason = "learning"

\* A decider that has recorded a decision decides against what the user
\* history teaches, and lists the learned strategy as an alternative.
C22_Witness ==
    /\ lastDecision # None /\ decided > 1 /\ Len(decisionHistory) > 1
    /\ Learned(deciderConfig, lastDecision[1]) = Some("ignore")
    /\ lastDecision[1].result.strategy = "watch_later"
    /\ \E n \in 1..Len(lastDecision[1].result.alternatives) :
          lastDecision[1].result.alternatives[n].strategy = "ignore"

\* C23: with learning on, the decision history is never longer than the
\* limit, it ends with the decision just made, and its entries are the most
\* recent decisions, one entry each, in the order they were made; with
\* learning off it is empty.
C23_HistoryIsRecentWindow ==
    IF deciderConfig.enableLearning
    THEN /\ Len(decisionHistory) <= HistoryLimit
         /\ decided > 0 => Len(decisionHistory) > 0
         /\ \A i \in 1..Len(decisionHistory) :
               decisionHistory[i].n = decided - Len(decisionHistory) + i
    ELSE decisionHistory = <<>>

\* The history has just been pruned to the entries kept.
C23_Witness ==
    /\ deciderConfig.enableLearning
    /\ decided = HistoryLimit + 1
    /\ Len(decisionHistory) = HistoryKept
    /\ decisionHistory[1].n = decided - HistoryKept + 1

\* C24: the rule list holds well-formed rules only, whatever was loaded,
\* and detectPlatform answers for every URL.
C24_MalformedEntriesSkipped ==
    /\ \A i \in 1..Len(rules) : HasPatterns(rules[i])
    /\ lastMatch # None => lastMatch[1].result # TypeErrorRaised

LowerCased(s) == [i \in 1..Len(s) |-> ToLowerCase(s[i])]

\* C26: for an input that new URL rejects, normalizeUrl returns the input
\* trimmed and in lower case.
C26_UnparseableLowerCased ==
    (nPc # "input" /\ ~ParseUrl(nIn).ok) => nOut[1] = LowerCased(Trim(nIn))

\* C27: a detect call that returns carries the strategy that the service's
\* preferences, as last updated, give for the content type of its result.
C27_ResultCarriesCurrentStrategy ==
    [][\A i \in 1..Len(calls) :
          (calls[i].pc # "done" /\ calls'[i].pc = "done") =>
             calls'[i].ret[1].processingStrategy
               = DefaultStrategyOf(ServiceDeciderConfig, calls'[i].ret[1].contentType)
      ]_vars

\* C28: with the cache enabled and within one TTL period, of the detect
\* calls on URLs of one normalized form at most one runs rule matching and at
\* most one runs metadata extraction, also when the calls overlap in time.
C28_OnceForOverlappingCalls ==
    cacheCfg.enabled =>
        \A i, j \in 1..Len(calls) :
            (i # j /\ calls[i].key = calls[j].key) =>
                /\ ~(calls[i].matched /\ calls[j].matched)
                /\ ~(calls[i].extracted /\ calls[j].extracted)

\* A get for the key at time t would return a result.
Visible(c, cfg, key, t) == CacheGet(c, [hits |-> 0, misses |-> 0], cfg, key, t).result # None

\* The item under the key was stored by a set at time t and not refreshed
\* since.
FreshlySet(c, key, t) ==
    /\ KeyIndex(c, key) # 0
    /\ c[KeyIndex(c, key)].timestamp = t
    /\ ~c[KeyIndex(c, key)].refreshed

\* C29: an entry whose expiry time has passed is made visible to get again by
\* no operation other than a new set for its key.
C29_ExpiredStaysAbsent ==
    [][\A key \in CacheKeys :
          (/\ KeyIndex(cache, key) # 0
           /\ now > cache[KeyIndex(cache, key)].expiresAt
           /\ Visible(cache', cacheCfg', key, now'))
          => FreshlySet(cache', key, now')]_vars

\* C30: right after a setRuleEnabled(p, false) that changed the rule list,
\* rule matching returns platform p for no URL, however many rules of
\* platform p there are.
C30_DisabledPlatformNeverMatches ==
    [][\A p \in {"youtube", "devto"} :
          (/\ rules' # rules
           /\ rules' = UpdateRuleIn(rules, p, [enabled |-> FALSE]))
          => \A url \in RuleUrls : DetectPlatformIn(rules', url).platform # p]_vars

\* The result of the catch of detect.
IsFallback(result) ==
    /\ result.platform = "generic" /\ result.contentType = "generic"
    /\ result.confidence = 10 /\ result.error # Undefined

\* C1 as stated: detect never raises, and when a failure was raised inside a
\* component during a call, the call returns platform generic, contentType
\* generic, confidence 0.1 and an error.
C1_AnyFailureYieldsFallback ==
    \A i \in 1..Len(calls) :
        /\ calls[i].pc # "raised"
        /\ (calls[i].pc = "done" /\ calls[i].failure # "none") =>
               IsFallback(calls[i].ret[1])

\* C1, amended: detect never raises; a failure raised inside cache access,
\* rule matching, classification, strategy decision or the cache write yields
\* platform generic, contentType generic, confidence 0.1, strategy clip and the
\* failure's message as error; a failure inside metadata extraction is
\* absorbed: the result keeps the platform and confidence of the matched rule
\* and has no error (and no metadata when extract itself raised).
C1_NeverRaises ==
    \A i \in 1..Len(calls) :
        LET call == calls[i] IN
        /\ call.pc # "raised"
        /\ call.pc = "done" =>
            /\ call.ret # None
            /\ call.site \in {"cache-get", "match", "classify", "decide", "cache-set"} =>
                  /\ IsFallback(call.ret[1])
                  /\ call.ret[1].processingStrategy = "clip"
                  /\ call.ret[1].metadata = 0
                  /\ call.ret[1].error \in {ErrorMessage(k) : k \in ThrownKinds}
            /\ call.site \in {"extract", "extract-step"} =>
                  /\ call.ret[1].error = Undefined
                  /\ call.ret[1].platform = call.platformResult.platform
                  /\ call.ret[1].confidence = call.platformResult.confidence
                  /\ call.site = "extract" => call.ret[1].metadata = 0
            /\ call.site = "none" => call.ret[1].error = Undefined

\* A call that met a failure in rule matching has returned, and so has one
\* whose extraction raised.
C1_Witness ==
    /\ \E i \in 1..Len(calls) : calls[i].pc = "done" /\ calls[i].site = "match"
    /\ \E i \in 1..Len(calls) : calls[i].pc = "done" /\ calls[i].site = "extract"

SameFamily(u, v) == \E family \in UrlFamilies : u \in family /\ v \in family

\* Call j began after call i had returned, on a URL of the same family, while
\* the item call i stored was in the cache and within its TTL.
Repeats(i, j) ==
    /\ i \in calls[j].after
    /\ i \in calls[j].live
    /\ SameFamily(calls[i].url, calls[j].url)

\* C4: a detect call made after another has returned, within the TTL, on a URL
\* that differs from the first one at most in fragment, scheme/host letter
\* case or tracking parameters runs no rule matching and no metadata
\* extraction and returns a result equal to the first call's.
C4_SecondCallFromCache ==
    \A i, j \in 1..Len(calls) :
        (calls[j].pc = "done" /\ Repeats(i, j)) =>
            /\ ~calls[j].matched
            /\ ~calls[j].extracted
            /\ calls[j].retValue = calls[i].retValue

\* A second call on another spelling of the first call's URL has returned a
\* result with metadata.
C4_Witness ==
    \E i, j \in 1..Len(calls) :
        /\ calls[j].pc = "done" /\ Repeats(i, j)
        /\ calls[i].url # calls[j].url
        /\ calls[j].retValue[1].metadata # None

\* The platform that rule matching gives for a URL.
PlatformOf(url) == DetectPlatformIn(rules, NormalizeUrl(url)).platform

\* C2: detectBatch returns one result per URL, result k being the result of
\* the detect call made for urls[k], whatever the order in which the calls of
\* a window finish; a URL whose detection fails has the fallback result at its
\* own place, and every other URL has the result of its own detection.
C2_BatchInInputOrder ==
    (batch # None /\ batch[1].pc # "window") =>
        LET b == batch[1] IN
        /\ b.pc = "returned"
        /\ Len(b.results) = Len(b.urls)
        /\ \A k \in 1..Len(b.urls) :
              /\ calls[k].url = b.urls[k]
              /\ b.results[k] = calls[k].ret[1]
              /\ calls[k].site = "match" => IsFallback(b.results[k])
              /\ calls[k].site = "none" =>
                    /\ b.results[k].error = Undefined
                    /\ b.results[k].platform = PlatformOf(b.urls[k])

\* A batch of more than one window has returned; in its first window a call
\* failed, and a call finished before one that was made earlier.
C2_Witness ==
    /\ batch # None /\ batch[1].pc = "returned"
    /\ Len(batch[1].urls) > BatchSize
    /\ \E k \in 1..BatchSize : calls[k].site = "match"
    /\ \E k, n \in 1..BatchSize : k < n /\ calls[n].seq < calls[k].seq

\* C7: a call answered from the cache returns the value that was stored,
\* whatever the callers of earlier calls have done to the results they got.
C7_CachedValueIsolated ==
    \A j \in 1..Len(calls) :
        (calls[j].pc = "done" /\ calls[j].hit # None /\ calls[j].hitOrig # None) =>
            calls[j].retValue = calls[j].hitOrig

=============================================================================
